---- MODULE Spec2Model ----
(***************************************************************************)
(* DespensaApp (src/src/App.jsx): the per-user document store              *)
(* (useUserStorage) and the daily closing (CierreDiario) with the sales    *)
(* list (VentasRecientes), the sale recorder (NuevaVenta) and the expense  *)
(* book (ComprasGastos).                                                   *)
(*                                                                         *)
(* Four specifications share the module:                                   *)
(*   SpecStorage  the session / load / debounced-save machinery, with the  *)
(*                document kept abstract (a set of tagged entries);        *)
(*   Spec         the ledger document and the handlers that mutate it;     *)
(*   SpecCaja     CierreDiario alone, with every text that can be typed;   *)
(*   SpecResumen  CierreDiario over the documents of earlier sessions.     *)
(***************************************************************************)
EXTENDS Integers, Sequences, FiniteSets, TLC

VARIABLES
  \* ---- useUserStorage / DespensaApp ----
  email,       \* DespensaApp.email ("" = logged out)
  state,       \* useUserStorage.state, the in-memory document
  backup,      \* localStorage["despensa:backup:<email>"], per user
  server,      \* the remote store behind GET/PUT /estado?email=<key>
  load,        \* the GET in flight of the load effect (with the backup it read)
  timer,       \* the pending 500 ms setTimeout of the save effect (its closure)
  putReq,      \* the PUT issued by the save effect and not yet answered
  puts,        \* history: every PUT issued, in order
  loadStatus,  \* history: how the load of the current session has ended
  nEdits,      \* number of document mutations so far (bounded)
  \* ---- the ledger document and the components that mutate it ----
  data,                 \* the document as the components see it (data / setData)
  tab,                  \* DespensaApp.tab: the mounted component
  fecha,                \* CierreDiario.fecha
  efectivoCajaProxDia,  \* CierreDiario text field
  efectivoPedidosYa,    \* CierreDiario text field
  efectivoHelperItems,  \* CierreDiario: the partial amounts counted
  nextId,               \* number of handlers that drew fresh uid()s so far
  nCash,                \* number of cash-field edits so far (bounded)
  last                  \* history: the last handler run and how it ended

storageVars ==
  <<email, state, backup, server, load, timer, putReq, puts, loadStatus, nEdits>>

cierreVars ==
  <<fecha, efectivoCajaProxDia, efectivoPedidosYa, efectivoHelperItems>>

ledgerVars == <<data, tab, cierreVars, nextId, nCash, last>>

\* The ledger without the record of the latest outcome.
ledgerRest == <<data, tab, cierreVars, nextId, nCash>>

vars == <<storageVars, ledgerVars>>

-----------------------------------------------------------------------------
(* Bounds *)
MaxEdits == 2
MaxPuts == 2
MaxLen == 2
MaxDate == 2
MaxId == 2
MaxProductos == 1
MaxCashEdits == 1
MaxHelper == 2

-----------------------------------------------------------------------------
(* Money utilities.  A number is held as an integer count of 1/Scale units,  *)
(* which is exact for every text of at most MaxLen characters and for half  *)
(* of the smallest amount such a text can hold; a text is a sequence of     *)
(* one-character strings.                                                   *)

Scale == 10 ^ (MaxLen + 1)

DigitChars == <<"0", "1", "2", "3", "4", "5", "6", "7", "8", "9">>
IsDigit(c) == \E i \in 1 .. 10 : DigitChars[i] = c
DigitVal(c) == (CHOOSE i \in 1 .. 10 : DigitChars[i] = c) - 1

\* Length of the longest prefix of t made of digits.
RECURSIVE DigitRun(_)
DigitRun(t) ==
  IF t = <<>> \/ ~IsDigit(Head(t)) THEN 0 ELSE 1 + DigitRun(Tail(t))

\* Value of a digit sequence read as an integer.
RECURSIVE IntOf(_)
IntOf(t) ==
  IF t = <<>> THEN 0 ELSE IntOf(SubSeq(t, 1, Len(t) - 1)) * 10 + DigitVal(t[Len(t)])

\* Value, in 1/Scale units, of a digit sequence read as a decimal fraction.
RECURSIVE FracOf(_, _)
FracOf(t, unit) ==
  IF t = <<>> THEN 0 ELSE DigitVal(Head(t)) * (unit \div 10) + FracOf(Tail(t), unit \div 10)

NaN == -1

\* JavaScript parseFloat on a text of digits, "." and ",": the longest prefix
\* digits [ "." digits ] with at least one digit, NaN otherwise.
ParseFloatUnsigned(t) ==
  LET n == DigitRun(t)
      rest == SubSeq(t, n + 1, Len(t))
      hasDot == rest # <<>> /\ Head(rest) = "."
      m == IF hasDot THEN DigitRun(Tail(rest)) ELSE 0
  IN IF n = 0 /\ m = 0 THEN NaN
     ELSE IntOf(SubSeq(t, 1, n)) * Scale
          + (IF hasDot THEN FracOf(SubSeq(rest, 2, m + 1), Scale) ELSE 0)

\* JavaScript parseFloat with its optional leading "-".
ParseFloat(t) ==
  IF t # <<>> /\ Head(t) = "-"
  THEN LET m == ParseFloatUnsigned(Tail(t)) IN IF m = NaN THEN NaN ELSE 0 - m
  ELSE ParseFloatUnsigned(t)

\* String.prototype.replace(/\./g, "")
RemoveDots(t) == SelectSeq(t, LAMBDA c : c # ".")

\* String.prototype.replace(from, to) with a string pattern: first occurrence.
RECURSIVE ReplaceFirst(_, _, _)
ReplaceFirst(t, from, to) ==
  IF t = <<>> THEN <<>>
  ELSE IF Head(t) = from THEN <<to>> \o Tail(t)
  ELSE <<Head(t)>> \o ReplaceFirst(Tail(t), from, to)

parseMoneyInput(v) ==
  LET n == ParseFloat(ReplaceFirst(RemoveDots(v), ",", "."))
  IN IF n # NaN THEN n ELSE 0

\* Decimal digits of a natural number.
RECURSIVE NatToString(_)
NatToString(n) ==
  IF n < 10 THEN <<DigitChars[n + 1]>>
  ELSE NatToString(n \div 10) \o <<DigitChars[(n % 10) + 1]>>

\* The fractional digits of f/unit, without trailing zeros.
RECURSIVE FracToString(_, _)
FracToString(f, unit) ==
  IF f = 0 THEN <<>>
  ELSE <<DigitChars[(f \div (unit \div 10)) + 1]>>
       \o FracToString(f % (unit \div 10), unit \div 10)

\* JavaScript String(n) for a non-negative number.
NumToString(n) ==
  IF n % Scale = 0 THEN NatToString(n \div Scale)
  ELSE NatToString(n \div Scale) \o <<".">> \o FracToString(n % Scale, Scale)

-----------------------------------------------------------------------------
(* useUserStorage *)

\* The latest outcome on record: none.
NoMark == "-"

Users == {"a", "b"}
NoEmail == ""

\* A document is modelled by the set of ledger entries it holds; an entry is
\* tagged with the user whose business it records.
Entries == Users \X (0 .. MaxEdits)
EmptyDoc == {}
RemoteDoc(u) == {<<u, 0>>}

\* A backup entry of localStorage: absent (or not a version-1 payload), or
\* holding a document.
NoBackup == [present |-> FALSE, state |-> {}]
BackupOf(s) == [present |-> TRUE, state |-> s]
NoLoad == [user |-> NoEmail, backup |-> NoBackup]
NoTimer == [key |-> NoEmail, body |-> EmptyDoc]
NoReq == [key |-> NoEmail, body |-> EmptyDoc]

\* The save effect (deps [email, state]): returns the timer it arms.
SaveEffect(e, s) ==
  IF e = NoEmail THEN NoTimer ELSE [key |-> e, body |-> s]

\* The load effect (deps [email]): fetchState reads the local backup first and
\* then issues the GET.
LoadEffect(e) ==
  IF e = NoEmail THEN NoLoad ELSE [user |-> e, backup |-> backup[e]]

\* The hook after the first render of DespensaApp: email comes from
\* localStorage["despensa:lastEmail"], the document is the empty one.
StorageInit ==
  /\ email \in {NoEmail} \cup Users
  /\ state = EmptyDoc
  /\ backup \in [Users -> {NoBackup} \cup {BackupOf(RemoteDoc(u)) : u \in Users}]
  /\ \A u \in Users : backup[u] \in {NoBackup, BackupOf(RemoteDoc(u))}
  /\ server = [u \in Users |-> RemoteDoc(u)]
  /\ load = LoadEffect(email)
  /\ timer = SaveEffect(email, state)
  /\ putReq = NoReq
  /\ puts = <<>>
  /\ loadStatus = IF email = NoEmail THEN "idle" ELSE "loading"
  /\ nEdits = 0

\* The outcome on record when the GET of user u is aborted.
AbortMark(u) == IF u = "a" THEN "cargaAbortadaA" ELSE "cargaAbortadaB"

\* Login.handle -> onLogin(email): both effects run for the new email.
Login(u) ==
  /\ email = NoEmail
  /\ email' = u
  /\ load' = [user |-> u, backup |-> backup[u]]
  /\ timer' = SaveEffect(u, state)
  /\ loadStatus' = "loading"
  /\ UNCHANGED <<state, backup, server, putReq, puts, nEdits>>
  /\ last' = IF last \in {AbortMark(v) : v \in Users} THEN last ELSE NoMark
  /\ UNCHANGED ledgerRest

\* Variant: the GET in flight is left to run.
Logout_SinAbortar ==
  /\ email # NoEmail
  /\ email' = NoEmail
  /\ timer' = NoTimer
  /\ loadStatus' = "idle"
  /\ putReq' = NoReq
  /\ UNCHANGED <<state, backup, server, load, puts, nEdits>>
  /\ last' = IF load # NoLoad THEN AbortMark(load.user) ELSE NoMark
  /\ UNCHANGED ledgerRest

\* logout = setEmail(""): both effects are cleaned up (GET aborted, timer
\* cleared, PUT aborted); the document stays in memory.
Logout ==
  /\ email # NoEmail
  /\ email' = NoEmail
  /\ load' = NoLoad
  /\ timer' = NoTimer
  /\ loadStatus' = "idle"
  /\ putReq' = NoReq
  /\ UNCHANGED <<state, backup, server, puts, nEdits>>
  /\ last' = IF load # NoLoad THEN AbortMark(load.user) ELSE NoMark
  /\ UNCHANGED ledgerRest

\* Variant: a backup that is there wins over the answer of the server.
LoadSuccess_PrefiereBackup ==
  /\ load # NoLoad
  /\ state' = IF load.backup.present THEN load.backup.state ELSE server[load.user]
  /\ load' = NoLoad
  /\ timer' = SaveEffect(email, state')
  /\ loadStatus' = "ok"
  /\ putReq' = NoReq
  /\ UNCHANGED <<email, backup, server, puts, nEdits>>
  /\ last' = "cargado"
  /\ UNCHANGED ledgerRest

\* fetchState, GET answered 200: setState({...defaults, ...data}).
LoadSuccess ==
  /\ load # NoLoad
  /\ state' = server[load.user]
  /\ load' = NoLoad
  /\ timer' = SaveEffect(email, state')
  /\ loadStatus' = "ok"
  /\ putReq' = NoReq
  /\ UNCHANGED <<email, backup, server, puts, nEdits>>
  /\ last' = "cargado"
  /\ UNCHANGED ledgerRest

\* fetchState, GET failed (not aborted): the backup read at the start of the
\* load, or the empty document.
LoadFailure ==
  /\ load # NoLoad
  /\ state' = IF load.backup.present THEN load.backup.state ELSE EmptyDoc
  /\ load' = NoLoad
  /\ timer' = SaveEffect(email, state')
  /\ loadStatus' = IF load.backup.present THEN "backup" ELSE "failed"
  /\ putReq' = NoReq
  /\ UNCHANGED <<email, backup, server, puts, nEdits>>
  /\ last' = "cargaFallida"
  /\ UNCHANGED ledgerRest

\* Variant: a timer that is armed is left to run with its document.
Mutate_SinCancelar ==
  /\ email # NoEmail
  /\ nEdits < MaxEdits
  /\ nEdits' = nEdits + 1
  /\ state' = state \cup {<<email, nEdits + 1>>}
  /\ timer' = IF timer # NoTimer THEN timer ELSE SaveEffect(email, state')
  /\ putReq' = NoReq
  /\ UNCHANGED <<email, backup, server, load, puts, loadStatus>>
  /\ last' = NoMark
  /\ UNCHANGED ledgerRest

\* Any setData of the UI while a user is logged in: a new document object.
Mutate ==
  /\ email # NoEmail
  /\ nEdits < MaxEdits
  /\ nEdits' = nEdits + 1
  /\ state' = state \cup {<<email, nEdits + 1>>}
  /\ timer' = SaveEffect(email, state')
  /\ putReq' = NoReq
  /\ UNCHANGED <<email, backup, server, load, puts, loadStatus>>
  /\ last' = NoMark
  /\ UNCHANGED ledgerRest

\* Variant: the PUT is issued without the local backup being written.
SaveTimerFires_SinBackup ==
  /\ timer # NoTimer
  /\ Len(puts) < MaxPuts
  /\ putReq' = [key |-> timer.key, body |-> timer.body]
  /\ puts' = Append(puts, [key |-> timer.key, body |-> timer.body,
                           load |-> loadStatus])
  /\ timer' = NoTimer
  /\ UNCHANGED <<email, state, backup, server, load, loadStatus, nEdits>>
  /\ last' = NoMark
  /\ UNCHANGED ledgerRest

\* The 500 ms timeout of the save effect fires: local backup, then PUT.
SaveTimerFires ==
  /\ timer # NoTimer
  /\ Len(puts) < MaxPuts
  /\ backup' = [backup EXCEPT ![timer.key] = BackupOf(timer.body)]
  /\ putReq' = [key |-> timer.key, body |-> timer.body]
  /\ puts' = Append(puts, [key |-> timer.key, body |-> timer.body,
                           load |-> loadStatus])
  /\ timer' = NoTimer
  /\ UNCHANGED <<email, state, server, load, loadStatus, nEdits>>
  /\ last' = NoMark
  /\ UNCHANGED ledgerRest

\* The remote store applies a PUT: the document is replaced entirely.
PutDelivered ==
  /\ putReq # NoReq
  /\ server' = [server EXCEPT ![putReq.key] = putReq.body]
  /\ putReq' = NoReq
  /\ UNCHANGED <<email, state, backup, load, timer, puts, loadStatus, nEdits>>
  /\ last' = "putEntregado"
  /\ UNCHANGED ledgerRest

\* Variant: a PUT that fails arms the timer again.
PutFails_Reintenta ==
  /\ putReq # NoReq
  /\ putReq' = NoReq
  /\ timer' = SaveEffect(email, state)
  /\ UNCHANGED <<email, state, backup, server, load, puts, loadStatus, nEdits>>
  /\ last' = "putFallido"
  /\ UNCHANGED ledgerRest

\* A PUT fails: logged only.  (An abort by the cleanup of the save effect is
\* part of the actions that re-run the effect.)
PutFails ==
  /\ putReq # NoReq
  /\ putReq' = NoReq
  /\ UNCHANGED <<email, state, backup, server, load, timer, puts,
                 loadStatus, nEdits>>
  /\ last' = "putFallido"
  /\ UNCHANGED ledgerRest

NextStorage ==
  \/ \E u \in Users : Login(u)
  \/ Logout
  \/ LoadSuccess
  \/ LoadFailure
  \/ Mutate
  \/ SaveTimerFires
  \/ PutDelivered
  \/ PutFails

-----------------------------------------------------------------------------
(* The ledger document.  Fields that are only displayed (nombre of a        *)
(* product, descripcion, time of day) are left out; a timestamp is kept as  *)
(* its calendar date; so is what a component only shows (the open cash-     *)
(* count panel, search boxes).                                              *)

Dates == 1 .. MaxDate
Today == MaxDate
NoFecha == 0
Undef == -2

Metodos == {"efectivo", "mercadopago", "posnet"}
Tabs == {"productos", "venta", "gastos", "fiados", "cierre"}
EANs == {"e1"}
Nombres == {"juan", "Juan"}
toLowerCase(n) == IF n \in Nombres THEN "juan" ELSE n
ProveedorNames == <<"p">>
PASSWORD_ABONO == "19256436"

\* Texts a user can type in a money field.
InputChars == {"1", ",", "."}
TypedTexts == UNION {[1 .. n -> InputChars] : n \in 0 .. MaxLen}
MontoTexts == {<<>>, <<"1">>}
CashTexts == {<<"1">>, <<",", "1">>}
HelperTexts == {<<>>, <<"1">>, <<",", "1">>}

NoRec ==
  [exists |-> FALSE, efectivoCajaProxDia |-> Undef, efectivoPedidosYa |-> Undef,
   cerrado |-> FALSE]

EmptyData ==
  [productos |-> <<>>, ventas |-> <<>>, gastos |-> <<>>, proveedores |-> <<>>,
   cierres |-> [d \in Dates |-> NoRec], fiados |-> <<>>]

RECURSIVE SumSeq(_)
SumSeq(q) == IF q = <<>> THEN 0 ELSE Head(q) + SumSeq(Tail(q))

MapSeq(q, F(_)) == [i \in DOMAIN q |-> F(q[i])]

\* Array.prototype.find by id: the sales with that id (at most one).
VentaById(s, id) == SelectSeq(s.ventas, LAMBDA v : v.id = id)

\* cierres[f] && cierres[f].cerrado
Cerrado(s, f) == s.cierres[f].exists /\ s.cierres[f].cerrado

\* Variant: the closing is looked up by the sale's own date, not cierreFecha.
Bloqueada_PorFecha(s, v) == Cerrado(s, v.fecha)

\* VentasRecientes: venta.cierreFecha && cierres[venta.cierreFecha] && ....cerrado
Bloqueada(s, v) == v.cierreFecha # NoFecha /\ Cerrado(s, v.cierreFecha)

EsMultipago(v) == Len(v.pagos) > 1

\* ---- setData updaters of CierreDiario ----

updateCierreValue(s, f, field, rawValue) ==
  LET num == parseMoneyInput(rawValue)
      prev == s.cierres[f]
  IN [s EXCEPT !.cierres[f] =
        [prev EXCEPT ![field] = num, !.exists = TRUE, !.cerrado = prev.cerrado]]

\* Variant: every sale is stamped, attributed or not.
cerrarUpdater_EstampaTodas(s, f, caja, pedYa) ==
  [s EXCEPT
     !.cierres[f] = [exists |-> TRUE, efectivoCajaProxDia |-> caja,
                     efectivoPedidosYa |-> pedYa, cerrado |-> TRUE],
     !.ventas = MapSeq(s.ventas, LAMBDA v : [v EXCEPT !.cierreFecha = f])]

cerrarUpdater(s, f, caja, pedYa) ==
  [s EXCEPT
     !.cierres[f] = [exists |-> TRUE, efectivoCajaProxDia |-> caja,
                     efectivoPedidosYa |-> pedYa, cerrado |-> TRUE],
     !.ventas = MapSeq(s.ventas,
                  LAMBDA v : IF v.cierreFecha # NoFecha THEN v
                             ELSE [v EXCEPT !.cierreFecha = f])]

\* Variant: every sale loses its cierreFecha.
reabrirUpdater_DesasignaTodas(s, f) ==
  [s EXCEPT
     !.cierres[f] = [s.cierres[f] EXCEPT !.exists = TRUE, !.cerrado = FALSE],
     !.ventas = MapSeq(s.ventas, LAMBDA v : [v EXCEPT !.cierreFecha = NoFecha])]

\* Variant: the sales are released but the record keeps cerrado.
reabrirUpdater_SinBandera(s, f) ==
  [s EXCEPT
     !.ventas = MapSeq(s.ventas,
                  LAMBDA v : IF v.cierreFecha = f
                             THEN [v EXCEPT !.cierreFecha = NoFecha] ELSE v)]

\* Variant: every closing record is reopened, not only the one of f.
reabrirUpdater_TodasLasFechas(s, f) ==
  [s EXCEPT
     !.cierres = [d \in Dates |->
                    IF d = f \/ s.cierres[d].exists
                    THEN [s.cierres[d] EXCEPT !.exists = TRUE, !.cerrado = FALSE]
                    ELSE s.cierres[d]],
     !.ventas = MapSeq(s.ventas,
                  LAMBDA v : IF v.cierreFecha = f
                             THEN [v EXCEPT !.cierreFecha = NoFecha] ELSE v)]

\* Variant: the record is opened but the sales keep their cierreFecha.
reabrirUpdater_SinDesasignar(s, f) ==
  [s EXCEPT
     !.cierres[f] = [s.cierres[f] EXCEPT !.exists = TRUE, !.cerrado = FALSE]]

reabrirUpdater(s, f) ==
  [s EXCEPT
     !.cierres[f] = [s.cierres[f] EXCEPT !.exists = TRUE, !.cerrado = FALSE],
     !.ventas = MapSeq(s.ventas,
                  LAMBDA v : IF v.cierreFecha = f
                             THEN [v EXCEPT !.cierreFecha = NoFecha] ELSE v)]

\* The effect on [fecha, cierres]: the text fields are re-seeded from the store.
SeedText(s, f, field) ==
  LET rec == s.cierres[f]
  IN IF rec.exists /\ rec[field] # Undef THEN NumToString(rec[field]) ELSE <<>>

Reseed(s, f) ==
  /\ efectivoCajaProxDia' = SeedText(s, f, "efectivoCajaProxDia")
  /\ efectivoPedidosYa' = SeedText(s, f, "efectivoPedidosYa")

helperTotal == SumSeq(efectivoHelperItems)

\* ---- CierreDiario.resumen: the figures shown for date f ----

ventasAsignadas(s, f) == SelectSeq(s.ventas, LAMBDA v : v.cierreFecha = f)

ventasSinAsignar(s) == SelectSeq(s.ventas, LAMBDA v : v.cierreFecha = NoFecha)

\* Variant: the unassigned sales are counted for a closed date too.
ventasDia_SiempreSinAsignar(s, f) ==
  ventasAsignadas(s, f) \o ventasSinAsignar(s)

ventasDia(s, f) ==
  IF Cerrado(s, f) THEN ventasAsignadas(s, f)
  ELSE ventasAsignadas(s, f) \o ventasSinAsignar(s)

\* A timestamp is kept as its calendar date: d0 <= t <= d1 is g.fecha = f.
gastosDia(s, f) == SelectSeq(s.gastos, LAMBDA g : g.fecha = f)

\* Variant: a sale counts by its own method and flat total only.
sumVentas_PorMetodoDeVenta(s, f, metodo) ==
  SumSeq(MapSeq(ventasDia(s, f), LAMBDA v :
    IF v.metodo = metodo THEN v.total ELSE 0))

\* What a sale adds to the total of a method: its payments of that method
\* when it has payments, its flat total when its own method is that one.
sumVentas(s, f, metodo) ==
  SumSeq(MapSeq(ventasDia(s, f), LAMBDA v :
    IF v.pagos # <<>>
    THEN SumSeq(MapSeq(SelectSeq(v.pagos, LAMBDA p : p.metodo = metodo),
                       LAMBDA p : p.monto))
    ELSE IF v.metodo = metodo THEN v.total ELSE 0))

\* Variant: every sale counts by its flat total.
totalVentas_SoloTotal(s, f) ==
  SumSeq(MapSeq(ventasDia(s, f), LAMBDA v : v.total))

totalVentas(s, f) ==
  SumSeq(MapSeq(ventasDia(s, f), LAMBDA v :
    IF v.pagos # <<>> THEN SumSeq(MapSeq(v.pagos, LAMBDA p : p.monto))
    ELSE v.total))

\* ---- ResumenHistorico: the figures shown for the range desde .. hasta ----

\* A timestamp is kept as its calendar date: d0 <= t <= d1 is desde <= fecha <= hasta.
ventasRango(s, desde, hasta) ==
  SelectSeq(s.ventas, LAMBDA v : desde <= v.fecha /\ v.fecha <= hasta)

totalVentasRango(s, desde, hasta) ==
  IF desde > hasta THEN Undef
  ELSE SumSeq(MapSeq(ventasRango(s, desde, hasta), LAMBDA v :
         IF v.pagos # <<>> THEN SumSeq(MapSeq(v.pagos, LAMBDA p : p.monto))
         ELSE v.total))

totalCompras(s, f) ==
  SumSeq(MapSeq(SelectSeq(gastosDia(s, f), LAMBDA g : g.tipo = "compra"),
                LAMBDA g : g.monto))

totalGastos(s, f) ==
  SumSeq(MapSeq(SelectSeq(gastosDia(s, f), LAMBDA g : g.tipo = "gasto"),
                LAMBDA g : g.monto))

totalEgresos(s, f) == totalCompras(s, f) + totalGastos(s, f)

netoDia(s, f) == totalVentas(s, f) - totalEgresos(s, f)

\* The day before f, for a browser clock at or west of UTC (local midnight,
\* one day back, read as a UTC date).
prevDateStr(f) == f - 1

\* parseMoneyInput given a number: String(v || "") and then the text rules.
parseMoneyNumber(n) ==
  IF n = 0 THEN parseMoneyInput(<<>>) ELSE parseMoneyInput(NumToString(n))

dineroCajaDiaAnterior(s, f) ==
  LET p == prevDateStr(f)
  IN parseMoneyNumber(
       IF p \in Dates /\ s.cierres[p].exists
          /\ s.cierres[p].efectivoCajaProxDia # Undef
       THEN s.cierres[p].efectivoCajaProxDia ELSE 0)

efectivoCajaNum == parseMoneyInput(efectivoCajaProxDia)
efectivoPedidosYaNum == parseMoneyInput(efectivoPedidosYa)

efectivoTotalDisponible ==
  sumVentas(data, fecha, "efectivo") + dineroCajaDiaAnterior(data, fecha)
    + efectivoPedidosYaNum - efectivoCajaNum

\* The outcomes of a handler that the properties speak about; any other
\* outcome is recorded as NoMark.
Mark(m) == last' = m

\* ---- DespensaApp: navigation.  A component's local state lives only while
\* its tab is shown; CierreDiario mounts with fecha = today.
SetTab(t) ==
  /\ t # tab
  /\ tab' = t
  /\ fecha' = Today
  /\ efectivoHelperItems' = <<>>
  /\ IF t = "cierre" THEN Reseed(data, Today)
     ELSE efectivoCajaProxDia' = <<>> /\ efectivoPedidosYa' = <<>>
  /\ Mark(NoMark)
  /\ UNCHANGED <<data, nextId, nCash>>
  /\ UNCHANGED storageVars

\* ---- CierreDiario ----

SetFecha(d) ==
  /\ tab = "cierre"
  /\ d # fecha
  /\ fecha' = d
  /\ Reseed(data, d)
  /\ Mark(NoMark)
  /\ UNCHANGED <<data, tab, efectivoHelperItems, nextId, nCash>>
  /\ UNCHANGED storageVars

\* Variant: the store is updated without looking at cerrado.
OnChangeCash_SinCandado(field, value) ==
  /\ tab = "cierre"
  /\ nCash < MaxCashEdits
  /\ nCash' = nCash + 1
  /\ data' = updateCierreValue(data, fecha, field, value)
  /\ Reseed(data', fecha)
  /\ Mark(IF Cerrado(data, fecha) THEN "cashRefused" ELSE NoMark)
  /\ UNCHANGED <<tab, fecha, efectivoHelperItems, nextId>>
  /\ UNCHANGED storageVars

\* onChangeCajaProxDia / onChangePedidosYa: the handler is run whether or not
\* the input is shown disabled; its own test of cerrado decides.
OnChangeCash(field, value) ==
  /\ tab = "cierre"
  /\ nCash < MaxCashEdits
  /\ nCash' = nCash + 1
  /\ IF ~Cerrado(data, fecha)
     THEN /\ data' = updateCierreValue(data, fecha, field, value)
          /\ Reseed(data', fecha)
     ELSE /\ data' = data
          /\ IF field = "efectivoCajaProxDia"
             THEN efectivoCajaProxDia' = value /\ UNCHANGED efectivoPedidosYa
             ELSE efectivoPedidosYa' = value /\ UNCHANGED efectivoCajaProxDia
  /\ Mark(IF Cerrado(data, fecha) THEN "cashRefused" ELSE NoMark)
  /\ UNCHANGED <<tab, fecha, efectivoHelperItems, nextId>>
  /\ UNCHANGED storageVars

onChangeCajaProxDia(value) == OnChangeCash("efectivoCajaProxDia", value)
onChangePedidosYa(value) == OnChangeCash("efectivoPedidosYa", value)

agregarHelperItem(raw) ==
  /\ tab = "cierre"
  /\ Len(efectivoHelperItems) < MaxHelper
  /\ LET monto == parseMoneyInput(raw)
     IN IF monto <= 0
        THEN UNCHANGED efectivoHelperItems /\ Mark(NoMark)
        ELSE /\ efectivoHelperItems' = Append(efectivoHelperItems, monto)
             /\ Mark(NoMark)
  /\ UNCHANGED <<data, tab, fecha, efectivoCajaProxDia, efectivoPedidosYa,
                 nextId, nCash>>
  /\ UNCHANGED storageVars

limpiarHelper ==
  /\ tab = "cierre"
  /\ efectivoHelperItems # <<>>
  /\ efectivoHelperItems' = <<>>
  /\ Mark(NoMark)
  /\ UNCHANGED <<data, tab, fecha, efectivoCajaProxDia, efectivoPedidosYa,
                 nextId, nCash>>
  /\ UNCHANGED storageVars

\* Variant: the total is written as String gives it, with its point.
helperStr_ConPunto(total) == NumToString(total)

\* String(total).replace(".", ",")
helperStr(total) == ReplaceFirst(NumToString(total), ".", ",")

usarHelperTotal ==
  /\ tab = "cierre"
  /\ nCash < MaxCashEdits
  /\ nCash' = nCash + 1
  /\ LET str == helperStr(helperTotal)
     IN IF ~Cerrado(data, fecha)
        THEN /\ data' = updateCierreValue(data, fecha, "efectivoCajaProxDia", str)
             /\ Reseed(data', fecha)
        ELSE /\ data' = data
             /\ efectivoCajaProxDia' = str
             /\ UNCHANGED efectivoPedidosYa
  /\ Mark(IF Cerrado(data, fecha) THEN "cashRefused" ELSE "helperUsado")
  /\ UNCHANGED <<tab, fecha, efectivoHelperItems, nextId>>
  /\ UNCHANGED storageVars

\* The button is disabled while the date is closed; confirmed is the answer
\* to confirm().
cerrarDefinitivo(confirmed) ==
  /\ tab = "cierre"
  /\ ~Cerrado(data, fecha)
  /\ IF confirmed
     THEN /\ data' = cerrarUpdater(data, fecha,
                                   parseMoneyInput(efectivoCajaProxDia),
                                   parseMoneyInput(efectivoPedidosYa))
          /\ Reseed(data', fecha)
          /\ Mark("cerrado")
     ELSE /\ UNCHANGED <<data, efectivoCajaProxDia, efectivoPedidosYa>>
          /\ Mark("declined")
  /\ UNCHANGED <<tab, fecha, efectivoHelperItems, nextId, nCash>>
  /\ UNCHANGED storageVars

reabrirDia(confirmed) ==
  /\ tab = "cierre"
  /\ IF Cerrado(data, fecha) /\ confirmed
     THEN /\ data' = reabrirUpdater(data, fecha)
          /\ Reseed(data', fecha)
          /\ Mark(IF last = "cerrado" THEN "reabiertoTrasCerrar" ELSE "reabierto")
     ELSE /\ UNCHANGED <<data, efectivoCajaProxDia, efectivoPedidosYa>>
          /\ Mark(IF Cerrado(data, fecha) THEN "declined" ELSE NoMark)
  /\ UNCHANGED <<tab, fecha, efectivoHelperItems, nextId, nCash>>
  /\ UNCHANGED storageVars

\* ---- Productos ----

HasEan(s, ean) == \E i \in DOMAIN s.productos : s.productos[i].ean = ean

addManual(ean, precio) ==
  /\ tab = "productos"
  /\ Len(data.productos) < MaxProductos
  /\ IF HasEan(data, ean)
     THEN UNCHANGED <<data, nextId>> /\ Mark(NoMark)
     ELSE /\ data' = [data EXCEPT !.productos =
                        Append(@, [id |-> Len(@) + 1, ean |-> ean,
                                   nombre |-> "(sin nombre)", precio |-> precio])]
          /\ UNCHANGED nextId
          /\ Mark(NoMark)
  /\ UNCHANGED <<tab, cierreVars, nCash>>
  /\ UNCHANGED storageVars

\* Variant: the new price is written into the lines of the recorded sales too.
updatePrecio_Retroactivo(id, precio) ==
  /\ tab = "productos"
  /\ \E i \in DOMAIN data.productos : data.productos[i].id = id
  /\ data' = [data EXCEPT
       !.productos = MapSeq(@, LAMBDA p : IF p.id = id THEN [p EXCEPT !.precio = precio]
                                          ELSE p),
       !.ventas = MapSeq(@, LAMBDA v :
                    [v EXCEPT !.items = MapSeq(@, LAMBDA i : [i EXCEPT !.precio = precio])])]
  /\ Mark("precio")
  /\ UNCHANGED <<tab, cierreVars, nextId, nCash>>
  /\ UNCHANGED storageVars

\* InlineMoney.commit -> updatePrecio(id, precio): any finite number.
updatePrecio(id, precio) ==
  /\ tab = "productos"
  /\ \E i \in DOMAIN data.productos : data.productos[i].id = id
  /\ data' = [data EXCEPT !.productos =
                MapSeq(@, LAMBDA p : IF p.id = id THEN [p EXCEPT !.precio = precio]
                                     ELSE p)]
  /\ Mark("precio")
  /\ UNCHANGED <<tab, cierreVars, nextId, nCash>>
  /\ UNCHANGED storageVars

\* ---- ImportExport ----

\* new Map(productos.map(p => [p.ean, p])), as the sequence of its values: a
\* key keeps the place of its first entry and the value of its last.
RECURSIVE byEAN(_)
byEAN(ps) ==
  IF ps = <<>> THEN <<>>
  ELSE LET acc == byEAN(SubSeq(ps, 1, Len(ps) - 1))
           p == ps[Len(ps)]
       IN IF \E i \in DOMAIN acc : acc[i].ean = p.ean
          THEN [i \in DOMAIN acc |-> IF acc[i].ean = p.ean THEN p ELSE acc[i]]
          ELSE Append(acc, p)

\* The id uid() gives a product: one no product of the map has.
FreshProductId(acc) ==
  1 + (CHOOSE m \in 0 .. Len(acc) + MaxProductos + MaxId + 1 :
         /\ \A i \in DOMAIN acc : acc[i].id <= m
         /\ m = 0 \/ \E i \in DOMAIN acc : acc[i].id = m)

\* rows.forEach over the map: a row whose ean is there overwrites nombre and
\* precio of that product, any other row is set as a new product.
RECURSIVE importRows(_, _)
importRows(acc, rows) ==
  IF rows = <<>> THEN acc
  ELSE LET r == Head(rows)
       IN importRows(
            IF \E i \in DOMAIN acc : acc[i].ean = r.ean
            THEN [i \in DOMAIN acc |->
                    IF acc[i].ean = r.ean
                    THEN [acc[i] EXCEPT
                            !.nombre = IF r.nombre # "" THEN r.nombre ELSE @,
                            !.precio = r.precio]
                    ELSE acc[i]]
            ELSE Append(acc, [id |-> FreshProductId(acc), ean |-> r.ean,
                              nombre |-> r.nombre, precio |-> r.precio]),
            Tail(rows))

\* Variant: the file replaces the catalog.
importUpdater_Reemplaza(s, rows) ==
  [s EXCEPT !.productos = importRows(<<>>, rows)]

importUpdater(s, rows) ==
  [s EXCEPT !.productos = importRows(byEAN(s.productos), rows)]

\* handleImport: rows is what parseCSV returned for the file.
handleImport(rows) ==
  /\ tab = "productos"
  /\ nextId < MaxId
  /\ IF rows = <<>>
     THEN UNCHANGED <<data, nextId>> /\ Mark("importVacio")
     ELSE /\ data' = importUpdater(data, rows)
          /\ nextId' = nextId + 1
          /\ Mark("importado")
  /\ UNCHANGED <<tab, cierreVars, nCash>>
  /\ UNCHANGED storageVars

\* ---- NuevaVenta ----

Precios == {0, Scale}
Overrides == {Scale}

\* The carts addByCode can build from the catalog (one line, one unit): the
\* catalog price, or the price typed at the prompt when the catalog price is 0.
Carts(s) ==
  UNION {{<<[ean |-> s.productos[i].ean, precio |-> pr, qty |-> 1]>> :
            pr \in IF s.productos[i].precio = 0 THEN Overrides
                   ELSE {s.productos[i].precio}} :
         i \in DOMAIN s.productos}

\* Variant: the quantities are added up, prices left out.
total_SoloCantidades(items) == SumSeq(MapSeq(items, LAMBDA i : i.qty))

total(items) == SumSeq(MapSeq(items, LAMBDA i : i.precio * i.qty))

\* The payment lists a user can declare for a cart of that total: none, the
\* total in one or two payments, half a cent short of it, one unit over it.
PagosTempChoices(t) ==
  {<<>>,
   <<[metodo |-> "efectivo", monto |-> t]>>,
   <<[metodo |-> "efectivo", monto |-> t \div 2],
     [metodo |-> "posnet", monto |-> t - (t \div 2)]>>,
   <<[metodo |-> "efectivo", monto |-> t - (Scale \div 200)]>>,
   <<[metodo |-> "efectivo", monto |-> t + Scale]>>}

Abs(x) == IF x < 0 THEN -x ELSE x

\* Variant: only the empty payment list is refused.
pagosRechazados_SoloVacio(pagosTemp, t) == pagosTemp = <<>>

\* The multi-payment validation of finalizar: no payment declared, or
\* Math.abs(totalPagos - total) > 0.01.
pagosRechazados(pagosTemp, t) ==
  \/ pagosTemp = <<>>
  \/ Abs(SumSeq(MapSeq(pagosTemp, LAMBDA p : p.monto)) - t) * 100 > Scale

ProductoPrecio(s, ean) ==
  IF HasEan(s, ean)
  THEN s.productos[CHOOSE i \in DOMAIN s.productos :
                      /\ s.productos[i].ean = ean
                      /\ \A j \in 1 .. i - 1 : s.productos[j].ean # ean].precio
  ELSE 0

\* Variant: every item freezes the price of its cart line.
cargoItems_SiempreCongela(s, items) ==
  MapSeq(items, LAMBDA i :
    [ean |-> i.ean, qty |-> i.qty, precioUnitario |-> i.precio])

cargoItems(s, items) ==
  MapSeq(items, LAMBDA i :
    IF ProductoPrecio(s, i.ean) = 0
    THEN [ean |-> i.ean, qty |-> i.qty, precioUnitario |-> i.precio]
    ELSE [ean |-> i.ean, qty |-> i.qty, precioUnitario |-> Undef])

\* Variant: the name is matched as written.
FiadorIndex_Exacto(s, nombre) ==
  {i \in DOMAIN s.fiados : s.fiados[i].nombre = nombre}

FiadorIndex(s, nombre) ==
  {i \in DOMAIN s.fiados : toLowerCase(s.fiados[i].nombre) = toLowerCase(nombre)}

\* Variant: the charge lands twice on an account that exists already.
fiadoUpdater_Duplicado(s, nombre, cargo, newId) ==
  IF FiadorIndex(s, nombre) = {}
  THEN [s EXCEPT !.fiados =
          Append(@, [id |-> newId, nombre |-> nombre, cargos |-> <<cargo>>,
                     abonos |-> <<>>])]
  ELSE LET idx == CHOOSE i \in FiadorIndex(s, nombre) :
                    \A j \in FiadorIndex(s, nombre) : i <= j
       IN [s EXCEPT !.fiados[idx].cargos = <<cargo, cargo>> \o @]

fiadoUpdater(s, nombre, cargo, newId) ==
  IF FiadorIndex(s, nombre) = {}
  THEN [s EXCEPT !.fiados =
          Append(@, [id |-> newId, nombre |-> nombre, cargos |-> <<cargo>>,
                     abonos |-> <<>>])]
  ELSE LET idx == CHOOSE i \in FiadorIndex(s, nombre) :
                    \A j \in FiadorIndex(s, nombre) : i <= j
       IN [s EXCEPT !.fiados[idx].cargos = <<cargo>> \o @]

\* finalizar: items, metodo, multiPago and pagosTemp are the component's state
\* when the button is pressed, nombre the answer to the prompt.
finalizar(items, metodo, multiPago, pagosTemp, nombre) ==
  /\ tab = "venta"
  /\ nextId < MaxId
  /\ items \in Carts(data)
  /\ metodo = "fiado" => ~multiPago
  /\ IF metodo = "fiado"
     THEN IF nombre = ""
          THEN UNCHANGED <<data, nextId>> /\ Mark(NoMark)
          ELSE /\ data' = fiadoUpdater(data, nombre,
                            [id |-> nextId + 1, fecha |-> Today,
                             items |-> cargoItems(data, items)], nextId + 1)
               /\ nextId' = nextId + 1
               /\ Mark("fiado")
     ELSE IF multiPago /\ pagosRechazados(pagosTemp, total(items))
          THEN UNCHANGED <<data, nextId>> /\ Mark("pagoRechazado")
          ELSE /\ data' = [data EXCEPT !.ventas =
                    <<[id |-> nextId + 1, fecha |-> Today, items |-> items,
                       metodo |-> IF multiPago THEN "mixto" ELSE metodo,
                       total |-> total(items),
                       pagos |-> IF multiPago THEN pagosTemp
                                 ELSE <<[metodo |-> metodo, monto |-> total(items)]>>,
                       cierreFecha |-> NoFecha]>> \o @]
               /\ nextId' = nextId + 1
               /\ Mark("venta")
  /\ UNCHANGED <<tab, cierreVars, nCash>>
  /\ UNCHANGED storageVars

\* ---- VentasRecientes: the handlers are run whether or not the control is
\* shown disabled; their own test of the closing decides.

eliminarVenta(id, confirmed) ==
  /\ tab = "venta"
  /\ VentaById(data, id) # <<>>
  /\ LET venta == Head(VentaById(data, id))
     IN IF Bloqueada(data, venta) \/ ~confirmed
        THEN /\ UNCHANGED data
             /\ Mark(IF Bloqueada(data, venta) THEN "ventaBloqueada" ELSE "declined")
        ELSE /\ data' = [data EXCEPT !.ventas = SelectSeq(@, LAMBDA v : v.id # id)]
             /\ Mark(NoMark)
  /\ UNCHANGED <<tab, cierreVars, nextId, nCash>>
  /\ UNCHANGED storageVars

\* Variant: the method is changed on a sale of a closed date too.
actualizarMetodo_SinCandado(id, metodo) ==
  /\ tab = "venta"
  /\ VentaById(data, id) # <<>>
  /\ LET venta == Head(VentaById(data, id))
     IN IF EsMultipago(venta)
        THEN /\ UNCHANGED data
             /\ Mark(IF Bloqueada(data, venta) THEN "ventaBloqueada" ELSE NoMark)
        ELSE /\ data' = [data EXCEPT !.ventas = MapSeq(@, LAMBDA v :
                          IF v.id = id
                          THEN [v EXCEPT !.metodo = metodo,
                                         !.pagos = IF Len(v.pagos) = 1
                                                   THEN <<[v.pagos[1] EXCEPT !.metodo = metodo]>>
                                                   ELSE v.pagos]
                          ELSE v)]
             /\ Mark(NoMark)
  /\ UNCHANGED <<tab, cierreVars, nextId, nCash>>
  /\ UNCHANGED storageVars

actualizarMetodo(id, metodo) ==
  /\ tab = "venta"
  /\ VentaById(data, id) # <<>>
  /\ LET venta == Head(VentaById(data, id))
     IN IF Bloqueada(data, venta) \/ EsMultipago(venta)
        THEN /\ UNCHANGED data
             /\ Mark(IF Bloqueada(data, venta) THEN "ventaBloqueada" ELSE NoMark)
        ELSE /\ data' = [data EXCEPT !.ventas = MapSeq(@, LAMBDA v :
                          IF v.id = id
                          THEN [v EXCEPT !.metodo = metodo,
                                         !.pagos = IF Len(v.pagos) = 1
                                                   THEN <<[v.pagos[1] EXCEPT !.metodo = metodo]>>
                                                   ELSE v.pagos]
                          ELSE v)]
             /\ Mark(NoMark)
  /\ UNCHANGED <<tab, cierreVars, nextId, nCash>>
  /\ UNCHANGED storageVars

\* ---- ComprasGastos ----

Rank(n) == CHOOSE i \in DOMAIN ProveedorNames : ProveedorNames[i] = n

\* The names of a set, sorted by localeCompare.
RECURSIVE SortedNames(_)
SortedNames(S) ==
  IF S = {} THEN <<>>
  ELSE LET m == CHOOSE x \in S : \A y \in S : Rank(x) <= Rank(y)
       IN <<m>> \o SortedNames(S \ {m})

SeqToSet(q) == {q[i] : i \in DOMAIN q}

\* Variant: a negative amount is refused for no kind.
gastoRechazado_SinSigno(tipo, proveedor, n) == proveedor = "" \/ n = 0

\* The validation of agregar.
gastoRechazado(tipo, proveedor, n) ==
  proveedor = "" \/ n = 0 \/ (tipo = "gasto" /\ n < 0)

agregar(tipo, proveedor, monto) ==
  /\ tab = "gastos"
  /\ nextId < MaxId
  /\ LET n == parseMoneyInput(monto)
     IN IF gastoRechazado(tipo, proveedor, n)
        THEN UNCHANGED <<data, nextId>> /\ Mark("gastoRechazado")
        ELSE /\ data' = [data EXCEPT
                  !.gastos = <<[id |-> nextId + 1, fecha |-> Today, tipo |-> tipo,
                                proveedor |-> proveedor, monto |-> n]>> \o @,
                  !.proveedores =
                     IF \E i \in DOMAIN @ : toLowerCase(@[i]) = toLowerCase(proveedor)
                     THEN @
                     ELSE SortedNames(SeqToSet(@) \cup {proveedor})]
             /\ nextId' = nextId + 1
             /\ Mark(NoMark)
  /\ UNCHANGED <<tab, cierreVars, nCash>>
  /\ UNCHANGED storageVars

eliminar(id, confirmed) ==
  /\ tab = "gastos"
  /\ \E i \in DOMAIN data.gastos : data.gastos[i].id = id
  /\ IF ~confirmed
     THEN UNCHANGED data /\ Mark("declined")
     ELSE /\ LET gastosRestantes == SelectSeq(data.gastos, LAMBDA g : g.id # id)
             IN data' = [data EXCEPT
                  !.gastos = gastosRestantes,
                  !.proveedores =
                     SortedNames({gastosRestantes[i].proveedor :
                                    i \in DOMAIN gastosRestantes})]
          /\ Mark(NoMark)
  /\ UNCHANGED <<tab, cierreVars, nextId, nCash>>
  /\ UNCHANGED storageVars

\* ---- Fiados ----

\* map.get(ean) of new Map(productos.map(p => [p.ean, p])): the last product
\* with that ean; Number(prod.precio) || 0, and 0 when there is none.
MapPrecio(s, ean) ==
  LET idx == {i \in DOMAIN s.productos : s.productos[i].ean = ean}
  IN IF idx = {} THEN 0
     ELSE s.productos[CHOOSE i \in idx : \A j \in idx : j <= i].precio

\* Variant: the current catalog price is used for every item.
computeSaldoPersona_PrecioActual(fiador, s) ==
  SumSeq(MapSeq(fiador.cargos, LAMBDA cargo :
    SumSeq(MapSeq(cargo.items, LAMBDA item : MapPrecio(s, item.ean) * item.qty))))
  - SumSeq(MapSeq(fiador.abonos, LAMBDA b : b.monto))

\* Variant: the payments are not taken off.
computeSaldoPersona_SinAbonos(fiador, s) ==
  SumSeq(MapSeq(fiador.cargos, LAMBDA cargo :
    SumSeq(MapSeq(cargo.items, LAMBDA item :
      (IF item.precioUnitario # Undef THEN item.precioUnitario
       ELSE MapPrecio(s, item.ean)) * item.qty))))

computeSaldoPersona(fiador, s) ==
  LET cargoTotal(cargo) ==
        SumSeq(MapSeq(cargo.items, LAMBDA item :
          (IF item.precioUnitario # Undef THEN item.precioUnitario
           ELSE MapPrecio(s, item.ean)) * item.qty))
      totalCargos == SumSeq(MapSeq(fiador.cargos, cargoTotal))
      totalAbonos == SumSeq(MapSeq(fiador.abonos, LAMBDA b : b.monto))
  IN totalCargos - totalAbonos

\* saldo > 0.0001
SaldoPositivo(fiador, s) == computeSaldoPersona(fiador, s) * 10000 > Scale

\* Variant: an account with nothing left to pay is listed too.
personasConSaldo_Todas(s) == s.fiados

\* Fiados.personasConSaldo: the accounts listed.
personasConSaldo(s) == SelectSeq(s.fiados, LAMBDA p : SaldoPositivo(p, s))

\* Variant: the account paid in full stays in the collection.
abonoUpdater_SinFiltro(s, nombre, monto, newId) ==
  [s EXCEPT !.fiados =
     MapSeq(@, LAMBDA p :
       IF toLowerCase(p.nombre) # toLowerCase(nombre) THEN p
       ELSE [p EXCEPT !.abonos =
               <<[id |-> newId, fecha |-> Today, monto |-> monto]>> \o @])]

abonoUpdater(s, nombre, monto, newId) ==
  [s EXCEPT !.fiados =
     SelectSeq(
       MapSeq(@, LAMBDA p :
         IF toLowerCase(p.nombre) # toLowerCase(nombre) THEN p
         ELSE [p EXCEPT !.abonos =
                 <<[id |-> newId, fecha |-> Today, monto |-> monto]>> \o @]),
       LAMBDA p : SaldoPositivo(p, s))]

\* The validation of agregarAbono: the alert it ends with, or "abono" when
\* the payment goes through.
abonoValidacion(s, nombre, monto, abonoPassword) ==
  IF nombre = "" THEN "abonoSinNombre"
  ELSE IF monto <= 0 THEN "abonoMontoInvalido"
  ELSE IF FiadorIndex(s, nombre) = {} THEN "abonoSinPersona"
  ELSE IF abonoPassword # PASSWORD_ABONO THEN "abonoClaveIncorrecta"
  ELSE "abono"

\* Variant: the payment is registered although the handler refuses it.
agregarAbono_SinValidar(nombre, abonoMonto, abonoPassword) ==
  /\ tab = "fiados"
  /\ nextId < MaxId
  /\ LET monto == parseMoneyInput(abonoMonto)
     IN /\ data' = abonoUpdater_SinFiltro(data, nombre, monto, nextId + 1)
        /\ nextId' = nextId + 1
        /\ Mark(abonoValidacion(data, nombre, monto, abonoPassword))
  /\ UNCHANGED <<tab, cierreVars, nCash>>
  /\ UNCHANGED storageVars

agregarAbono(nombre, abonoMonto, abonoPassword) ==
  /\ tab = "fiados"
  /\ nextId < MaxId
  /\ LET monto == parseMoneyInput(abonoMonto)
     IN IF abonoValidacion(data, nombre, monto, abonoPassword) # "abono"
        THEN /\ UNCHANGED <<data, nextId>>
             /\ Mark(abonoValidacion(data, nombre, monto, abonoPassword))
        ELSE /\ data' = abonoUpdater(data, nombre, monto, nextId + 1)
             /\ nextId' = nextId + 1
             /\ Mark("abono")
  /\ UNCHANGED <<tab, cierreVars, nCash>>
  /\ UNCHANGED storageVars

PASSWORD_ELIMINAR == "Cmarie1$"

\* Variant: every account goes, whatever its id.
eliminarFiadoUpdater_Todos(s, id) == [s EXCEPT !.fiados = <<>>]

eliminarFiadoUpdater(s, id) ==
  [s EXCEPT !.fiados = SelectSeq(@, LAMBDA p : p.id # id)]

\* confirmarEliminarFiado: deleteTarget is the listed account whose 'Eliminar'
\* opened the modal, deletePassword the text typed in it.
confirmarEliminarFiado(targetId, deletePassword) ==
  /\ tab = "fiados"
  /\ \E i \in DOMAIN personasConSaldo(data) : personasConSaldo(data)[i].id = targetId
  /\ IF deletePassword # PASSWORD_ELIMINAR
     THEN UNCHANGED data /\ Mark("eliminarRechazado")
     ELSE /\ data' = eliminarFiadoUpdater(data, targetId)
          /\ Mark("fiadoEliminado")
  /\ UNCHANGED <<tab, cierreVars, nextId, nCash>>
  /\ UNCHANGED storageVars

-----------------------------------------------------------------------------
(* Specifications *)

LedgerInit ==
  /\ data = EmptyData
  /\ tab = "productos"
  /\ fecha = Today
  /\ efectivoCajaProxDia = <<>>
  /\ efectivoPedidosYa = <<>>
  /\ efectivoHelperItems = <<>>
  /\ nextId = 0
  /\ nCash = 0
  /\ last = NoMark

\* The session the ledger handlers run in: a user is logged in and the
\* storage hook is at rest.
StorageQuiet ==
  /\ email = "a"
  /\ state = EmptyDoc
  /\ backup = [u \in Users |-> NoBackup]
  /\ server = [u \in Users |-> RemoteDoc(u)]
  /\ load = NoLoad
  /\ timer = NoTimer
  /\ putReq = NoReq
  /\ puts = <<>>
  /\ loadStatus = "ok"
  /\ nEdits = 0

InitStorage == StorageInit /\ LedgerInit

SpecStorage == InitStorage /\ [][NextStorage]_vars

\* A timeout that is armed and not cleared runs its callback after 500 ms.
SpecStorageLive ==
  InitStorage /\ [][NextStorage]_vars /\ WF_vars(SaveTimerFires)

Init == StorageQuiet /\ LedgerInit

\* CierreDiario alone, with every text that can be typed in the cash fields.
NextCaja ==
  \/ \E t \in {"venta", "cierre"} : SetTab(t)
  \/ \E d \in Dates : SetFecha(d)
  \/ \E v \in TypedTexts : onChangeCajaProxDia(v)
  \/ \E v \in TypedTexts : onChangePedidosYa(v)
  \/ \E v \in HelperTexts : agregarHelperItem(v)
  \/ limpiarHelper
  \/ usarHelperTotal
  \/ \E c \in BOOLEAN : cerrarDefinitivo(c)
  \/ \E c \in BOOLEAN : reabrirDia(c)

SpecCaja == Init /\ [][NextCaja]_vars

\* The whole ledger; the cash fields take the texts of CashTexts and the
\* cash-count panel is left to SpecCaja.
Next ==
  \/ \E t \in Tabs : SetTab(t)
  \/ \E d \in Dates : SetFecha(d)
  \/ \E v \in CashTexts : onChangeCajaProxDia(v)
  \/ \E v \in CashTexts : onChangePedidosYa(v)
  \/ \E c \in BOOLEAN : cerrarDefinitivo(c)
  \/ \E c \in BOOLEAN : reabrirDia(c)
  \/ \E e \in EANs, p \in Precios : addManual(e, p)
  \/ \E items \in Carts(data) :
       \/ \E n \in Nombres \cup {""} : finalizar(items, "fiado", FALSE, <<>>, n)
       \/ \E m \in Metodos : finalizar(items, m, FALSE, <<>>, "")
       \/ \E pt \in PagosTempChoices(total(items)) :
            finalizar(items, "efectivo", TRUE, pt, "")
  \/ \E id \in 1 .. MaxId, c \in BOOLEAN : eliminarVenta(id, c)
  \/ \E id \in 1 .. MaxId, m \in Metodos : actualizarMetodo(id, m)
  \/ \E t \in {"compra", "gasto"}, p \in {"", "p"}, m \in MontoTexts :
       agregar(t, p, m)
  \/ \E id \in 1 .. MaxId, c \in BOOLEAN : eliminar(id, c)
  \/ \E n \in Nombres \cup {""}, m \in MontoTexts,
        pw \in {PASSWORD_ABONO, "x"} : agregarAbono(n, m, pw)

Spec == Init /\ [][Next]_vars

\* ---- The daily closing over documents of earlier sessions ----

\* The sales a loaded document can hold: written by the earlier revision of
\* the app (no pagos, only metodo and total), or by this one with one
\* payment, with two, or with one payment half a cent short of the total.
LoadedVentas(id) ==
  {[id |-> id, fecha |-> IF c = NoFecha THEN Today ELSE c,
    items |-> <<[ean |-> "e1", precio |-> Scale, qty |-> 1]>>,
    metodo |-> mp[1], total |-> Scale, pagos |-> mp[2], cierreFecha |-> c] :
     mp \in {<<"efectivo", <<>>>>,
             <<"posnet", <<>>>>,
             <<"efectivo", <<[metodo |-> "efectivo", monto |-> Scale]>>>>,
             <<"mixto", <<[metodo |-> "efectivo", monto |-> Scale \div 2],
                          [metodo |-> "posnet", monto |-> Scale - (Scale \div 2)]>>>>,
             <<"mixto", <<[metodo |-> "efectivo",
                           monto |-> Scale - (Scale \div 200)]>>>>},
     c \in {NoFecha} \cup Dates}

LoadedGastos(id) ==
  {[id |-> id, fecha |-> f, tipo |-> t, proveedor |-> "p",
    monto |-> IF t = "compra" THEN Scale ELSE 2 * Scale] :
     f \in Dates, t \in {"compra", "gasto"}}

\* The record cerrarDefinitivo leaves when no amount was typed.
ClosedRec ==
  [exists |-> TRUE, efectivoCajaProxDia |-> 0, efectivoPedidosYa |-> 0,
   cerrado |-> TRUE]

\* A sale is attributed to a date only by the close of that date, and loses
\* the attribution when the date is reopened.
LoadedDocs ==
  {[productos |-> <<[id |-> 1, ean |-> "e1", nombre |-> "(sin nombre)",
                       precio |-> Scale]>>,
    ventas |-> vs, gastos |-> gs,
    proveedores |-> IF gs = <<>> THEN <<>> ELSE <<"p">>,
    cierres |-> [d \in Dates |-> IF d \in C THEN ClosedRec ELSE NoRec],
    fiados |-> <<>>] :
     vs \in {<<>>} \cup {<<v>> : v \in LoadedVentas(1)}
              \cup {<<v, w>> : v \in LoadedVentas(2), w \in LoadedVentas(1)},
     gs \in {<<>>} \cup {<<g>> : g \in LoadedGastos(MaxId + 1)}
              \cup {<<g, h>> : g \in LoadedGastos(MaxId + 2),
                               h \in LoadedGastos(MaxId + 1)},
     C \in SUBSET Dates}

InitResumen ==
  /\ StorageQuiet
  /\ data \in LoadedDocs
  /\ \A i \in DOMAIN data.ventas :
       data.ventas[i].cierreFecha # NoFecha => Cerrado(data, data.ventas[i].cierreFecha)
  /\ tab = "cierre"
  /\ fecha = Today
  /\ efectivoCajaProxDia = SeedText(data, Today, "efectivoCajaProxDia")
  /\ efectivoPedidosYa = SeedText(data, Today, "efectivoPedidosYa")
  /\ efectivoHelperItems = <<>>
  /\ nextId = MaxId
  /\ nCash = 0
  /\ last = NoMark

NextResumen ==
  \/ \E d \in Dates : SetFecha(d)
  \/ \E c \in BOOLEAN : cerrarDefinitivo(c)
  \/ \E c \in BOOLEAN : reabrirDia(c)

SpecResumen == InitResumen /\ [][NextResumen]_vars

\* ---- The credit ledger over documents of earlier sessions ----

Personas == {"juan", "ana"}

\* Ids of records written in earlier sessions.
LoadedId(nombre) == MaxId + (IF nombre = "juan" THEN 1 ELSE 2)

\* The account an earlier session left for a person: one charge of one unit,
\* its price frozen (the catalog price was 0 at the sale) or not.
LoadedFiados(nombre) ==
  {[id |-> LoadedId(nombre), nombre |-> nombre,
    cargos |-> <<[id |-> LoadedId(nombre) + 2, fecha |-> Today,
                  items |-> <<[ean |-> "e1", qty |-> 1, precioUnitario |-> pu]>>]>>,
    abonos |-> <<>>] : pu \in {Undef, Scale}}

\* The catalog was edited after the sales: the product may be gone, or have
\* any price.
LoadedCreditDocs ==
  {[EmptyData EXCEPT !.productos = ps, !.fiados = fs] :
     ps \in {<<>>} \cup {<<[id |-> 1, ean |-> "e1", nombre |-> "(sin nombre)",
                            precio |-> pr]>> : pr \in Precios},
     fs \in {<<>>} \cup {<<f>> : f \in LoadedFiados("juan") \cup LoadedFiados("ana")}
              \cup {<<f, g>> : f \in LoadedFiados("juan"), g \in LoadedFiados("ana")}}

InitFiados ==
  /\ StorageQuiet
  /\ data \in LoadedCreditDocs
  /\ tab = "productos"
  /\ fecha = Today
  /\ efectivoCajaProxDia = <<>>
  /\ efectivoPedidosYa = <<>>
  /\ efectivoHelperItems = <<>>
  /\ nextId = 0
  /\ nCash = 0
  /\ last = NoMark

\* Prices a user can commit in the catalog row.
PreciosEditados == {0, Scale, 2 * Scale}

NextFiados ==
  \/ \E t \in {"productos", "venta", "fiados"} : SetTab(t)
  \/ \E e \in EANs, p \in Precios : addManual(e, p)
  \/ \E id \in 1 .. MaxProductos, p \in PreciosEditados : updatePrecio(id, p)
  \/ \E items \in Carts(data) :
       \/ \E n \in Personas : finalizar(items, "fiado", FALSE, <<>>, n)
       \/ finalizar(items, "efectivo", FALSE, <<>>, "")
  \/ \E n \in Personas \cup {"Juan", ""}, m \in MontoTexts,
        pw \in {PASSWORD_ABONO, PASSWORD_ELIMINAR, ""} : agregarAbono(n, m, pw)
  \/ \E id \in 1 .. MaxId + 2, pw \in {PASSWORD_ABONO, PASSWORD_ELIMINAR, ""} :
       confirmarEliminarFiado(id, pw)

SpecFiados == InitFiados /\ [][NextFiados]_vars

\* ---- Compras / Gastos over documents of earlier sessions ----

\* Texts typed in the amount field: none, zero, one, minus one.
GastoTexts == {<<>>, <<"0">>, <<"1">>, <<"-", "1">>}

\* The expenses a loaded document can hold, a credit note among them.
LoadedGastosDocs ==
  {[EmptyData EXCEPT !.gastos = gs,
                     !.proveedores = IF gs = <<>> THEN <<>> ELSE <<"p">>] :
     gs \in {<<>>} \cup {<<g>> : g \in LoadedGastos(MaxId + 1)}
              \cup {<<[g EXCEPT !.monto = IF g.tipo = "compra" THEN 0 - Scale ELSE @], h>> :
                       g \in LoadedGastos(MaxId + 2), h \in LoadedGastos(MaxId + 1)}}

InitGastos ==
  /\ StorageQuiet
  /\ data \in LoadedGastosDocs
  /\ tab = "gastos"
  /\ fecha = Today
  /\ efectivoCajaProxDia = <<>>
  /\ efectivoPedidosYa = <<>>
  /\ efectivoHelperItems = <<>>
  /\ nextId = 0
  /\ nCash = 0
  /\ last = NoMark

NextGastos ==
  \/ \E t \in {"gastos", "productos"} : SetTab(t)
  \/ \E t \in {"compra", "gasto"}, p \in {"", "p"}, m \in GastoTexts :
       agregar(t, p, m)
  \/ \E id \in 1 .. MaxId + 2, c \in BOOLEAN : eliminar(id, c)

SpecGastos == InitGastos /\ [][NextGastos]_vars

\* ---- CSV import over catalogs of earlier sessions ----

ImportEANs == {"e1", "e2", "e3"}

\* What parseCSV returns for a file: per line an ean, a name ("(sin nombre)"
\* when the column is empty) and a price.
FileRow == [ean : ImportEANs, nombre : {"pan", "(sin nombre)"}, precio : Precios]
FileRows == {<<>>} \cup {<<r>> : r \in FileRow} \cup {<<r, q>> : r \in FileRow, q \in FileRow}

LoadedCatalogs ==
  {<<>>,
   <<[id |-> 1, ean |-> "e1", nombre |-> "(sin nombre)", precio |-> Scale]>>,
   <<[id |-> 1, ean |-> "e1", nombre |-> "(sin nombre)", precio |-> Scale],
     [id |-> 2, ean |-> "e2", nombre |-> "(sin nombre)", precio |-> 0]>>}

InitImport ==
  /\ StorageQuiet
  /\ \E ps \in LoadedCatalogs : data = [EmptyData EXCEPT !.productos = ps]
  /\ tab = "productos"
  /\ fecha = Today
  /\ efectivoCajaProxDia = <<>>
  /\ efectivoPedidosYa = <<>>
  /\ efectivoHelperItems = <<>>
  /\ nextId = 0
  /\ nCash = 0
  /\ last = NoMark

NextImport ==
  \/ \E t \in {"productos", "venta"} : SetTab(t)
  \/ \E e \in EANs, p \in Precios : addManual(e, p)
  \/ \E id \in 1 .. MaxProductos, p \in PreciosEditados : updatePrecio(id, p)
  \/ \E rows \in FileRows : handleImport(rows)

SpecImport == InitImport /\ [][NextImport]_vars

-----------------------------------------------------------------------------
(* Claims on useUserStorage *)

\* C1: no PUT to the state endpoint is issued before the GET of the same
\* session has settled; in particular the empty initial document is never PUT
\* while the load is still in flight.
C1_NoPutBeforeLoadSettled ==
  \A i \in 1 .. Len(puts) : puts[i].load # "loading"

\* C2: after a logout or user switch from A to B, no PUT addressed to B's key
\* and no write to B's local backup carries the document loaded or edited
\* under A.
C2_NoCrossUserWrite ==
  /\ \A i \in 1 .. Len(puts) :
       \A en \in puts[i].body : en[1] = puts[i].key
  /\ \A u \in Users :
       \A en \in backup[u].state : en[1] = u

\* C3: when the remote load fails and no local backup exists, the document
\* starts empty and no PUT is issued for it: saving stays withheld until a
\* load has resolved successfully.
C3_NoPutAfterFailedLoad ==
  /\ (loadStatus = "failed" /\ nEdits = 0) => state = EmptyDoc
  /\ \A i \in 1 .. Len(puts) : puts[i].load # "failed"

-----------------------------------------------------------------------------
(* Claims on the daily closing *)

\* The closing record of date d says cerrado.
DiaCerrado(s, d) == s.cierres[d].exists /\ s.cierres[d].cerrado

\* Sale v is attributed to a date whose closing record says cerrado.
EnDiaCerrado(s, v) == v.cierreFecha \in Dates /\ DiaCerrado(s, v.cierreFecha)

\* The sales of t are those of s, one for one, apart from cierreFecha.
MismasVentas(s, t) ==
  /\ Len(t.ventas) = Len(s.ventas)
  /\ \A i \in DOMAIN s.ventas :
       [t.ventas[i] EXCEPT !.cierreFecha = NoFecha]
         = [s.ventas[i] EXCEPT !.cierreFecha = NoFecha]

\* C4: a Sale whose cierreFecha is a closed date cannot be deleted and cannot
\* have its payment method changed: eliminarVenta and actualizarMetodo on such
\* a sale leave the sales collection unchanged.
C4_LockedSaleImmutable ==
  [][/\ (tab = "venta" /\ tab' = "venta") =>
          \A i \in DOMAIN data.ventas :
            EnDiaCerrado(data, data.ventas[i]) =>
              \E j \in DOMAIN data'.ventas : data'.ventas[j] = data.ventas[i]
     /\ last' = "ventaBloqueada" => data'.ventas = data.ventas]_vars

C4_Witness ==
  /\ last = "ventaBloqueada"
  /\ \E i \in DOMAIN data.ventas : EnDiaCerrado(data, data.ventas[i])

\* C5: while the record of date d has cerrado = true, every attempt to edit
\* the cash fields of d (typing in either field, or 'use counted total')
\* leaves its efectivoCajaProxDia and efectivoPedidosYa unchanged.
C5_ClosedCashUnchanged ==
  [][\A d \in Dates :
       DiaCerrado(data, d) =>
         /\ data'.cierres[d].efectivoCajaProxDia = data.cierres[d].efectivoCajaProxDia
         /\ data'.cierres[d].efectivoPedidosYa = data.cierres[d].efectivoPedidosYa]_vars

C5_Witness ==
  /\ last = "cashRefused"
  /\ DiaCerrado(data, fecha)
  /\ \/ efectivoCajaProxDia # SeedText(data, fecha, "efectivoCajaProxDia")
     \/ efectivoPedidosYa # SeedText(data, fecha, "efectivoPedidosYa")

\* C6: closing date d stamps every Sale that has no cierreFecha with d and
\* leaves the cierreFecha of every already-attributed Sale unchanged; after
\* the transition no Sale is unassigned.
C6_CloseStampsUnassigned ==
  [][last' = "cerrado" =>
       /\ Len(data'.ventas) = Len(data.ventas)
       /\ \A i \in DOMAIN data.ventas :
            data'.ventas[i] =
              IF data.ventas[i].cierreFecha = NoFecha
              THEN [data.ventas[i] EXCEPT !.cierreFecha = fecha]
              ELSE data.ventas[i]
       /\ \A i \in DOMAIN data'.ventas : data'.ventas[i].cierreFecha # NoFecha]_vars

C6_Witness ==
  /\ last = "cerrado"
  /\ \E i \in DOMAIN data.ventas : data.ventas[i].cierreFecha = fecha
  /\ \E i \in DOMAIN data.ventas : data.ventas[i].cierreFecha \in Dates \ {fecha}

\* The amount held for a cash field of date d (0 when none was entered).
Entered(s, d, field) ==
  IF s.cierres[d].exists /\ s.cierres[d][field] # Undef THEN s.cierres[d][field] ELSE 0

\* C7: closing date d stores in the record of d exactly the cash-carry and
\* PedidosYa amounts the user last entered for d while it was open (the
\* amounts the record held when the close was confirmed), including amounts
\* with a fractional part, and sets cerrado = true.
C7_CloseStoresEnteredAmounts ==
  [][last' = "cerrado" =>
       /\ data'.cierres[fecha].efectivoCajaProxDia
            = Entered(data, fecha, "efectivoCajaProxDia")
       /\ data'.cierres[fecha].efectivoPedidosYa
            = Entered(data, fecha, "efectivoPedidosYa")
       /\ DiaCerrado(data', fecha)]_vars

\* C8: reopening a closed date d sets cerrado = false for d, removes the
\* cierreFecha of exactly the Sales whose cierreFecha = d, leaves every other
\* Sale and every other date's record unchanged, and keeps the stored cash
\* amounts of d.
C8_ReopenFrame ==
  [][last' \in {"reabierto", "reabiertoTrasCerrar"} =>
       /\ DiaCerrado(data, fecha) /\ ~DiaCerrado(data', fecha)
       /\ Len(data'.ventas) = Len(data.ventas)
       /\ \A i \in DOMAIN data.ventas :
            data'.ventas[i] =
              IF data.ventas[i].cierreFecha = fecha
              THEN [data.ventas[i] EXCEPT !.cierreFecha = NoFecha]
              ELSE data.ventas[i]
       /\ \A d \in Dates \ {fecha} : data'.cierres[d] = data.cierres[d]
       /\ data'.cierres[fecha].efectivoCajaProxDia
            = data.cierres[fecha].efectivoCajaProxDia
       /\ data'.cierres[fecha].efectivoPedidosYa
            = data.cierres[fecha].efectivoPedidosYa]_vars

C8_Witness ==
  /\ last = "reabierto"
  /\ \E i \in DOMAIN data.ventas : data.ventas[i].cierreFecha = NoFecha
  /\ \E i \in DOMAIN data.ventas : data.ventas[i].cierreFecha \in Dates \ {fecha}

\* C9: close(d) followed by reopen(d) on an open date d restores the
\* editability of d's cash fields and makes every Sale attributed to d by the
\* close deletable and method-editable again; the Sales and their totals are
\* those before the close.
C9_CloseReopenRoundTrip ==
  [][/\ last' = "cerrado" => MismasVentas(data, data')
     /\ last' = "reabiertoTrasCerrar" =>
          /\ MismasVentas(data, data')
          /\ ~DiaCerrado(data', fecha)
          /\ \A i \in DOMAIN data.ventas :
               data.ventas[i].cierreFecha = fecha =>
                 ~EnDiaCerrado(data', data'.ventas[i])]_vars

C9_Witness ==
  /\ last = "reabiertoTrasCerrar"
  /\ \E i \in DOMAIN data.ventas : data.ventas[i].cierreFecha = NoFecha

\* C10: a date with no record is Open; the closed flag of date d changes only
\* by a confirmed close(d) (false to true) or a confirmed reopen(d) (true to
\* false); no other operation changes it, and a declined confirmation leaves
\* the whole document unchanged.
C10_ClosedFlagStateMachine ==
  [][/\ \A d \in Dates :
          /\ ~data.cierres[d].exists => ~DiaCerrado(data, d)
          /\ (~DiaCerrado(data, d) /\ DiaCerrado(data', d)) =>
               (last' = "cerrado" /\ fecha = d)
          /\ (DiaCerrado(data, d) /\ ~DiaCerrado(data', d)) =>
               (last' \in {"reabierto", "reabiertoTrasCerrar"} /\ fecha = d)
     /\ last' = "declined" => data' = data]_vars

C10_Witness ==
  /\ last = "declined"
  /\ \E d \in Dates : DiaCerrado(data, d)
  /\ \E d \in Dates : data.cierres[d].exists /\ ~DiaCerrado(data, d)

-----------------------------------------------------------------------------
(* Claims on the figures of the daily closing *)

\* The cash carried into date d: the efectivoCajaProxDia held by the record
\* of the calendar day before d, 0 when there is none.
CashCarriedFromPreviousDay(s, d) ==
  IF d - 1 \in Dates THEN Entered(s, d - 1, "efectivoCajaProxDia") ELSE 0

\* C11: for the date shown, the total available cash is the day's cash sales
\* plus the cash carried from the previous day plus the PedidosYa cash amount
\* of the date's record minus the cash carry to the next day of the date's
\* record, exactly.
C11_TotalAvailableCash ==
  tab = "cierre" =>
    efectivoTotalDisponible
      = sumVentas(data, fecha, "efectivo")
        + CashCarriedFromPreviousDay(data, fecha)
        + Entered(data, fecha, "efectivoPedidosYa")
        - Entered(data, fecha, "efectivoCajaProxDia")

\* C12: for every date d, the cash carried from the previous day is the
\* efectivoCajaProxDia stored in the record keyed at d - 1 (0 when there is
\* no such record), whatever the stored value, fractional values included,
\* and whatever the sales.
C12_CarriedFromPreviousDay ==
  \A d \in Dates :
    dineroCajaDiaAnterior(data, d) = CashCarriedFromPreviousDay(data, d)

\* Sale v belongs to the day of d: it is attributed to d, or it is attributed
\* to no date and d is open.
VentaDelDia(s, v, d) ==
  \/ v.cierreFecha = d
  \/ v.cierreFecha = NoFecha /\ ~DiaCerrado(s, d)

\* The sequence q holds exactly the elements of all that satisfy Keep, each
\* once.
ExactlyThose(q, all, Keep(_)) ==
  /\ Len(q) = Cardinality({i \in DOMAIN all : Keep(all[i])})
  /\ \A i \in DOMAIN all : Keep(all[i]) => \E j \in DOMAIN q : q[j] = all[i]
  /\ \A j \in DOMAIN q : \E i \in DOMAIN all : Keep(all[i]) /\ q[j] = all[i]

\* C13: the day's sales for date d are exactly the Sales with cierreFecha = d
\* plus, when d is open, every Sale with no cierreFecha (none of them when d
\* is closed); the day's expenses are exactly the Expenses whose date is d.
C13_DaySalesAndExpenses ==
  \A d \in Dates :
    /\ ExactlyThose(ventasDia(data, d), data.ventas,
                    LAMBDA v : VentaDelDia(data, v, d))
    /\ ExactlyThose(gastosDia(data, d), data.gastos, LAMBDA g : g.fecha = d)

\* A date was reopened, so its sale is unassigned again, while another date
\* stays closed with a sale of its own; each date has one expense.
C13_Witness ==
  /\ last = "reabierto"
  /\ \E d \in Dates \ {fecha} :
       /\ DiaCerrado(data, d)
       /\ \E i \in DOMAIN data.ventas : data.ventas[i].cierreFecha = d
       /\ Len(ventasDia(data, d)) = 1
       /\ Len(gastosDia(data, d)) = 1
  /\ \E i \in DOMAIN data.ventas : data.ventas[i].cierreFecha = NoFecha
  /\ Len(ventasDia(data, fecha)) = 1
  /\ Len(gastosDia(data, fecha)) = 1

\* What a sale contributes to the total of sales: the sum of its payments
\* when it has payments, its flat total otherwise.
VentaAporte(v) ==
  IF Len(v.pagos) > 0 THEN SumSeq([i \in DOMAIN v.pagos |-> v.pagos[i].monto])
  ELSE v.total

\* The amounts of the expenses of date d of one kind, summed.
SumaPorTipo(s, d, tipo) ==
  SumSeq(MapSeq(SelectSeq(s.gastos, LAMBDA g : g.fecha = d /\ g.tipo = tipo),
                LAMBDA g : g.monto))

\* C14: for every date d, the net of the day is the total of sales minus
\* (total of purchases + total of expenses); a Sale contributes the sum of its
\* payments when it has payments and its flat total otherwise; purchases and
\* expenses are summed separately by kind.
C14_NetForDay ==
  \A d \in Dates :
    /\ totalVentas(data, d) = SumSeq(MapSeq(ventasDia(data, d), VentaAporte))
    /\ totalCompras(data, d) = SumaPorTipo(data, d, "compra")
    /\ totalGastos(data, d) = SumaPorTipo(data, d, "gasto")
    /\ netoDia(data, d)
         = totalVentas(data, d) - (totalCompras(data, d) + totalGastos(data, d))

C14_Witness ==
  /\ \E i \in DOMAIN data.ventas :
       /\ VentaDelDia(data, data.ventas[i], fecha)
       /\ data.ventas[i].pagos = <<>>
  /\ \E i \in DOMAIN data.ventas :
       /\ VentaDelDia(data, data.ventas[i], fecha)
       /\ data.ventas[i].pagos # <<>>
       /\ VentaAporte(data.ventas[i]) # data.ventas[i].total
  /\ totalCompras(data, fecha) > 0
  /\ totalGastos(data, fecha) > 0
  /\ netoDia(data, fecha) < 0
  /\ last = "reabierto"

\* The aggregate of date d: total sales, total purchases, total expenses, net.
Agregado(s, d) ==
  <<totalVentas(s, d), totalCompras(s, d), totalGastos(s, d), netoDia(s, d)>>

\* C15: while date d is closed, the day's aggregate for d (total sales, total
\* purchases, total expenses, net) is not changed by any operation other than
\* the reopening of d.
C15_ClosedDayAggregateFrozen ==
  [][\A d \in Dates :
       (DiaCerrado(data, d)
        /\ ~(last' \in {"reabierto", "reabiertoTrasCerrar"} /\ fecha = d))
         => Agregado(data', d) = Agregado(data, d)]_vars

-----------------------------------------------------------------------------
(* Claims on the sale recorder *)

\* The sum of the payments of a sale.
SumaPagos(v) == SumSeq([i \in DOMAIN v.pagos |-> v.pagos[i].monto])

\* The sum over the line items of a sale of unit price times quantity.
SumaItems(v) == SumSeq([i \in DOMAIN v.items |-> v.items[i].precio * v.items[i].qty])

\* x and y differ by at most 0.01.
DentroDeTolerancia(x, y) == (IF x < y THEN y - x ELSE x - y) * 100 <= Scale

\* C16: a multi-payment sale whose declared payments do not sum to the cart
\* total within 0.01, or that declares no payment, is rejected and leaves the
\* document unchanged; so a sale that enters the collection has payments and
\* they sum to its total within 0.01.
C16_MultiPaymentRejected ==
  [][/\ last' = "pagoRechazado" => data' = data
     /\ last' = "venta" =>
          /\ Head(data'.ventas).pagos # <<>>
          /\ DentroDeTolerancia(SumaPagos(Head(data'.ventas)),
                                Head(data'.ventas).total)]_vars

C16_Witness ==
  /\ last = "pagoRechazado"
  /\ \E i \in DOMAIN data.ventas : Len(data.ventas[i].pagos) = 2

-----------------------------------------------------------------------------
(* Claims on credit sales *)

\* The number of charges over all credit accounts.
NumCargos(s) == SumSeq([i \in DOMAIN s.fiados |-> Len(s.fiados[i].cargos)])

\* Account q is account p with one charge put in front.
UnCargoMas(p, q) ==
  /\ q.id = p.id /\ q.nombre = p.nombre /\ q.abonos = p.abonos
  /\ Len(q.cargos) = Len(p.cargos) + 1
  /\ Tail(q.cargos) = p.cargos

\* C18: finalizing a cart produces exactly one of (a) one new Sale at the
\* head of the sales collection with the credit accounts unchanged, or (b)
\* one new Charge in exactly one credit account (an existing one, or a new one
\* that holds nothing else) with the sales collection unchanged; a credit sale
\* changes no figure of any daily closing.
C18_SaleOrCharge ==
  [][/\ last' = "venta" =>
          /\ Len(data'.ventas) = Len(data.ventas) + 1
          /\ Tail(data'.ventas) = data.ventas
          /\ data'.fiados = data.fiados
     /\ last' = "fiado" =>
          /\ data'.ventas = data.ventas
          /\ NumCargos(data') = NumCargos(data) + 1
          /\ \/ /\ Len(data'.fiados) = Len(data.fiados) + 1
                /\ SubSeq(data'.fiados, 1, Len(data.fiados)) = data.fiados
                /\ Len(data'.fiados[Len(data'.fiados)].cargos) = 1
                /\ data'.fiados[Len(data'.fiados)].abonos = <<>>
             \/ /\ Len(data'.fiados) = Len(data.fiados)
                /\ \E i \in DOMAIN data.fiados :
                     /\ UnCargoMas(data.fiados[i], data'.fiados[i])
                     /\ \A j \in DOMAIN data.fiados \ {i} :
                          data'.fiados[j] = data.fiados[j]
          /\ \A d \in Dates :
               /\ ventasDia(data', d) = ventasDia(data, d)
               /\ Agregado(data', d) = Agregado(data, d)
               /\ \A m \in Metodos : sumVentas(data', d, m) = sumVentas(data, d, m)
     /\ (last' \in {"venta", "fiado"}) =>
          /\ data'.productos = data.productos
          /\ data'.gastos = data.gastos
          /\ data'.cierres = data.cierres]_vars

\* A sale was recorded and then a credit sale.
C18_Witness ==
  /\ last = "fiado"
  /\ Len(data.ventas) = 1
  /\ NumCargos(data) = 1

\* The charges of s that s0 does not hold.
CargosNuevos(s0, s) ==
  {c \in UNION {SeqToSet(s.fiados[i].cargos) : i \in DOMAIN s.fiados} :
     \A i \in DOMAIN s0.fiados : c \notin SeqToSet(s0.fiados[i].cargos)}

\* C19: no two credit accounts have names that are equal ignoring case; a
\* credit sale to a name that matches an existing account ignoring case adds
\* its Charge to that account, which keeps its earlier charges and its
\* payments, and creates no account.
C19_UniqueNamesIgnoringCase ==
  [][/\ \A i, j \in DOMAIN data'.fiados :
          toLowerCase(data'.fiados[i].nombre) = toLowerCase(data'.fiados[j].nombre)
            => i = j
     /\ last' = "fiado" =>
          \A r \in DOMAIN data'.fiados :
            (\E c \in CargosNuevos(data, data') :
               c \in SeqToSet(data'.fiados[r].cargos))
              => \A i \in DOMAIN data.fiados :
                   toLowerCase(data.fiados[i].nombre)
                     = toLowerCase(data'.fiados[r].nombre)
                     => /\ r = i
                        /\ Len(data'.fiados) = Len(data.fiados)
                        /\ UnCargoMas(data.fiados[i], data'.fiados[i])]_vars

C19_Witness ==
  /\ last = "fiado"
  /\ \E i \in DOMAIN data.fiados : Len(data.fiados[i].cargos) = 2

\* The catalog price of a code: the price of the first product that has it.
CatalogPrice(s, ean) ==
  LET idx == {i \in DOMAIN s.productos : s.productos[i].ean = ean}
  IN IF idx = {} THEN 0
     ELSE s.productos[CHOOSE i \in idx : \A j \in idx : i <= j].precio

\* C20: an item of a recorded Charge carries a frozen unit price
\* (precioUnitario) if and only if the catalog price of its product was 0 when
\* the charge was recorded, and the frozen price is then the price of the cart
\* line, which is the price typed at the prompt.
C20_FrozenPriceIffCatalogZero ==
  [][last' = "fiado" =>
       \A c \in CargosNuevos(data, data') :
         \E cart \in Carts(data) :
           /\ Len(c.items) = Len(cart)
           /\ \A k \in DOMAIN cart :
                /\ c.items[k].ean = cart[k].ean
                /\ c.items[k].qty = cart[k].qty
                /\ (c.items[k].precioUnitario # Undef)
                     <=> (CatalogPrice(data, cart[k].ean) = 0)
                /\ c.items[k].precioUnitario # Undef =>
                     /\ c.items[k].precioUnitario = cart[k].precio
                     /\ cart[k].precio \in Overrides]_vars

C20_Witness ==
  /\ last = "fiado"
  /\ \E i \in DOMAIN data.fiados :
       \E k \in DOMAIN data.fiados[i].cargos[1].items :
         /\ data.fiados[i].cargos[1].items[k].precioUnitario \in Overrides
         /\ CatalogPrice(data, data.fiados[i].cargos[1].items[k].ean) = 0

-----------------------------------------------------------------------------
(* Claims on the credit ledger and the catalog *)

\* All the items charged to the accounts of a ledger.
ItemsFiados(s) ==
  UNION {UNION {SeqToSet(s.fiados[i].cargos[j].items) :
                  j \in DOMAIN s.fiados[i].cargos} : i \in DOMAIN s.fiados}

\* What one item adds to the balance of its account.
Aporte(item, s) ==
  computeSaldoPersona([cargos |-> <<[items |-> <<item>>]>>, abonos |-> <<>>], s)

\* C21: whatever the step (catalog price edits included), an item charged
\* with a frozen price adds the same to its account's balance before and
\* after it, namely frozen price times quantity, while an item without one
\* adds the current catalog price times its quantity.
C21_FrozenItemKeepsContribution ==
  [][\A item \in ItemsFiados(data) :
       IF item.precioUnitario # Undef
       THEN /\ Aporte(item, data') = Aporte(item, data)
            /\ Aporte(item, data) = item.precioUnitario * item.qty
       ELSE /\ Aporte(item, data) = CatalogPrice(data, item.ean) * item.qty
            /\ Aporte(item, data') = CatalogPrice(data', item.ean) * item.qty]_vars

\* The catalog price was raised to twice the frozen price: the account with
\* the frozen item still owes the frozen price, the other one the new price.
C21_Witness ==
  /\ last = "precio"
  /\ CatalogPrice(data, "e1") = 2 * Scale
  /\ \E i, j \in DOMAIN data.fiados :
       /\ data.fiados[i].cargos[1].items[1].precioUnitario = Scale
       /\ computeSaldoPersona(data.fiados[i], data) = Scale
       /\ data.fiados[j].cargos[1].items[1].precioUnitario = Undef
       /\ computeSaldoPersona(data.fiados[j], data) = 2 * Scale

\* The price an item is charged at: the frozen one if it has one, else that of
\* the product of the catalog with its code, else 0.
PrecioDeItem(item, s) ==
  IF item.precioUnitario # Undef THEN item.precioUnitario
  ELSE IF \E k \in DOMAIN s.productos : s.productos[k].ean = item.ean
       THEN CatalogPrice(s, item.ean)
       ELSE 0

\* Charges of an account from its j-th charge and k-th item on.
RECURSIVE SumaCargos(_, _, _, _)
SumaCargos(p, s, j, k) ==
  IF j > Len(p.cargos) THEN 0
  ELSE IF k > Len(p.cargos[j].items) THEN SumaCargos(p, s, j + 1, 1)
  ELSE PrecioDeItem(p.cargos[j].items[k], s) * p.cargos[j].items[k].qty
       + SumaCargos(p, s, j, k + 1)

RECURSIVE SumaAbonos(_, _)
SumaAbonos(p, k) ==
  IF k > Len(p.abonos) THEN 0 ELSE p.abonos[k].monto + SumaAbonos(p, k + 1)

AbonoRechazos ==
  {"abonoSinNombre", "abonoMontoInvalido", "abonoSinPersona", "abonoClaveIncorrecta"}

\* C23: a payment refused by agregarAbono (no name, amount not positive, no
\* account of that name, password not the settlement password) leaves the
\* whole document as it was: no payment added, no account removed, every
\* balance the same.
C23_RejectedPaymentChangesNothing ==
  [][last' \in AbonoRechazos =>
       /\ data' = data
       /\ \A i \in DOMAIN data.fiados :
            /\ i \in DOMAIN data'.fiados
            /\ data'.fiados[i].abonos = data.fiados[i].abonos
            /\ computeSaldoPersona(data'.fiados[i], data')
                 = computeSaldoPersona(data.fiados[i], data)]_vars

\* A payment for an account that is there was refused for its password.
C23_Witness ==
  /\ last = "abonoClaveIncorrecta"
  /\ \E i \in DOMAIN data.fiados : computeSaldoPersona(data.fiados[i], data) > 0

\* The amounts a payment can be entered with.
MontosAbono == {parseMoneyInput(m) : m \in MontoTexts} \ {0}

\* Account q is account p with one payment of amount m put first.
ConUnAbonoMas(p, q, m) ==
  /\ q.id = p.id
  /\ q.nombre = p.nombre
  /\ q.cargos = p.cargos
  /\ Len(q.abonos) = Len(p.abonos) + 1
  /\ Tail(q.abonos) = p.abonos
  /\ Head(q.abonos).monto = m

\* C24: a payment that goes through adds exactly one Payment of the amount
\* entered to one account; that account stays in the collection when what it
\* owes afterwards is more than 0.0001 and is taken out of it when not.
C24_PaymentAddedAndSettledRemoved ==
  [][last' = "abono" =>
       \E i \in DOMAIN data.fiados, m \in MontosAbono :
         LET p == data.fiados[i]
             after == {j \in DOMAIN data'.fiados : data'.fiados[j].id = p.id}
         IN IF computeSaldoPersona(p, data) - m > 0
            THEN /\ Cardinality(after) = 1
                 /\ \A j \in after :
                      /\ ConUnAbonoMas(p, data'.fiados[j], m)
                      /\ computeSaldoPersona(data'.fiados[j], data') > 0
            ELSE after = {}]_vars

\* A payment of part of the debt: the account stays with its payment.
C24_Witness ==
  /\ last = "abono"
  /\ \E i \in DOMAIN data.fiados :
       /\ Len(data.fiados[i].abonos) = 1
       /\ computeSaldoPersona(data.fiados[i], data) > 0

\* C25: a payment that goes through changes the account of the person paid
\* for and no other: every other account is still there afterwards, with the
\* same charges and payments, whatever it owes.
C25_PaymentLeavesOtherAccounts ==
  [][last' = "abono" =>
       Cardinality({i \in DOMAIN data.fiados :
                      data.fiados[i] \notin SeqToSet(data'.fiados)}) <= 1]_vars

\* C26: the listing of 'Fiados' shows exactly the accounts of the document
\* that owe more than 0.0001 against the current catalog, each once and in
\* the document's order; and the account a payment has settled is in no
\* listing of that state or a later one (it is out of the document, and no
\* account is ever written with its id again).
C26_ListingIsAccountsThatOwe ==
  [][/\ \A s \in {data, data'} :
          /\ \A i \in DOMAIN personasConSaldo(s) :
               /\ personasConSaldo(s)[i] \in SeqToSet(s.fiados)
               /\ computeSaldoPersona(personasConSaldo(s)[i], s) * 10000 > Scale
          /\ \A i \in DOMAIN s.fiados :
               computeSaldoPersona(s.fiados[i], s) * 10000 > Scale
                 => Cardinality({k \in DOMAIN personasConSaldo(s) :
                                   personasConSaldo(s)[k] = s.fiados[i]})
                      = Cardinality({k \in DOMAIN s.fiados : s.fiados[k] = s.fiados[i]})
     /\ \A i \in DOMAIN data'.fiados :
          \/ \E j \in DOMAIN data.fiados : data.fiados[j].id = data'.fiados[i].id
          \/ data'.fiados[i].id = nextId']_vars

\* A payment has just settled an account: the document and the listing hold
\* another account that owes, and not the settled one.
C26_Witness ==
  /\ last = "abono"
  /\ Len(data.fiados) = 1
  /\ data.fiados[1].abonos = <<>>
  /\ Len(personasConSaldo(data)) = 1

\* Sequence q without its i-th element.
SinElemento(q, i) == SubSeq(q, 1, i - 1) \o SubSeq(q, i + 1, Len(q))

\* C27: confirmarEliminarFiado leaves the document as it was when the
\* password typed is not the deletion password, which is not the settlement
\* password; when it is, exactly one account, the one with the id asked for,
\* goes with all its charges and payments, and the other accounts and the
\* rest of the document stay as they were.
C27_DeleteAccountNeedsItsPassword ==
  [][/\ PASSWORD_ELIMINAR # PASSWORD_ABONO
     /\ last' = "eliminarRechazado" => data' = data
     /\ last' = "fiadoEliminado" =>
          \E i \in DOMAIN data.fiados :
            /\ \A j \in DOMAIN data.fiados : j # i => data.fiados[j].id # data.fiados[i].id
            /\ data' = [data EXCEPT !.fiados = SinElemento(@, i)]]_vars

\* One of two accounts was deleted: the other one is still there.
C27_Witness ==
  /\ last = "fiadoEliminado"
  /\ Len(data.fiados) = 1
  /\ data.fiados[1].cargos # <<>>

-----------------------------------------------------------------------------
(* Claims on Compras / Gastos *)

\* C28: every expense on record has an amount other than 0, and one more
\* than 0 when its kind is gasto; an attempt agregar refuses (no supplier
\* name, amount 0 or unreadable, negative amount for a gasto) leaves the
\* expenses and the suppliers as they were.
C28_ExpenseAmounts ==
  [][/\ \A s \in {data, data'} :
          \A i \in DOMAIN s.gastos :
            /\ s.gastos[i].monto # 0
            /\ s.gastos[i].tipo = "gasto" => s.gastos[i].monto > 0
            /\ s.gastos[i].proveedor # ""
     /\ last' = "gastoRechazado" =>
          /\ data'.gastos = data.gastos
          /\ data'.proveedores = data.proveedores]_vars

\* A credit note (compra of minus one) is on record and the latest attempt
\* was refused.
C28_Witness ==
  /\ last = "gastoRechazado"
  /\ nextId > 0
  /\ \E i \in DOMAIN data.gastos :
       /\ data.gastos[i].id = nextId
       /\ data.gastos[i].tipo = "compra"
       /\ data.gastos[i].monto < 0

-----------------------------------------------------------------------------
(* Claims on the catalog *)

\* C29: a sale, paid or on credit, leaves the catalog as it was, also when
\* its line carries the price typed for a product whose catalog price is 0
\* (the catalog price is still 0 and the total of the sale is that of its
\* lines); and a price edit in the catalog leaves every recorded sale, lines
\* and total, as it was.
C29_SalesAndCatalogApart ==
  [][/\ last' \in {"venta", "fiado"} =>
          /\ data'.productos = data.productos
          /\ last' = "venta" =>
               LET v == Head(data'.ventas)
               IN /\ v.total = SumaItems(v)
                  /\ \A k \in DOMAIN v.items :
                       CatalogPrice(data, v.items[k].ean) = 0
                         => /\ v.items[k].precio \in Overrides
                            /\ CatalogPrice(data', v.items[k].ean) = 0
     /\ last' = "precio" =>
          /\ data'.ventas = data.ventas
          /\ \A i \in DOMAIN data'.ventas :
               data'.ventas[i].total = SumaItems(data'.ventas[i])]_vars

\* The catalog price is twice the price of the line of a recorded sale.
C29_Witness ==
  /\ last = "precio"
  /\ CatalogPrice(data, "e1") = 2 * Scale
  /\ \E i \in DOMAIN data.ventas :
       /\ data.ventas[i].items[1].precio = Scale
       /\ data.ventas[i].total = Scale

\* The last row of a file with that ean.
UltimaFila(rows, ean) ==
  rows[CHOOSE k \in DOMAIN rows :
         /\ rows[k].ean = ean
         /\ \A j \in DOMAIN rows : rows[j].ean = ean => j <= k]

FileEANs(rows) == {rows[k].ean : k \in DOMAIN rows}

\* C30: an import merges by ean. For some file the catalog after it is the
\* catalog before it, in its order and with its ids, where a product whose ean
\* is in the file has the name and price of the file's row and a product
\* whose ean is not is unchanged, followed by one product with a new id for
\* each ean of the file that the catalog had not.
C30_ImportMergesByEan ==
  [][last' = "importado" =>
       \E rows \in FileRows \ {<<>>} :
         LET old == data.productos
             new == data'.productos
             nuevos == FileEANs(rows) \ {old[i].ean : i \in DOMAIN old}
         IN /\ Len(new) = Len(old) + Cardinality(nuevos)
            /\ \A i \in DOMAIN old :
                 /\ new[i].id = old[i].id
                 /\ new[i].ean = old[i].ean
                 /\ IF old[i].ean \in FileEANs(rows)
                    THEN /\ new[i].nombre = UltimaFila(rows, old[i].ean).nombre
                         /\ new[i].precio = UltimaFila(rows, old[i].ean).precio
                    ELSE new[i] = old[i]
            /\ \A i \in DOMAIN new \ DOMAIN old :
                 /\ new[i].ean \in nuevos
                 /\ new[i].nombre = UltimaFila(rows, new[i].ean).nombre
                 /\ new[i].precio = UltimaFila(rows, new[i].ean).precio
                 /\ \A j \in DOMAIN new : j # i =>
                      /\ new[j].id # new[i].id
                      /\ new[j].ean # new[i].ean]_vars

\* One import over a catalog of two: the first product has the file's name
\* and price and its id, the second is as it was, a third one is new.
C30_Witness ==
  /\ last = "importado"
  /\ nextId = 1
  /\ Len(data.productos) = 3
  /\ data.productos[1] = [id |-> 1, ean |-> "e1", nombre |-> "pan", precio |-> 0]
  /\ data.productos[2] = [id |-> 2, ean |-> "e2", nombre |-> "(sin nombre)", precio |-> 0]
  /\ data.productos[3].ean = "e3"

-----------------------------------------------------------------------------
(* Claims on the cash tally *)

\* The first k amounts of a tally added up.
RECURSIVE SumaTally(_, _)
SumaTally(q, k) == IF k = 0 THEN 0 ELSE SumaTally(q, k - 1) + q[k]

\* C31: when 'usar total' is pressed on a date that is not closed, the
\* efectivoCajaProxDia stored for that date is the sum of the tally, whatever
\* the tally holds (nothing, whole amounts, amounts with decimals).
C31_CountedTotalIsStored ==
  [][last' = "helperUsado" =>
       /\ data'.cierres[fecha].exists
       /\ data'.cierres[fecha].efectivoCajaProxDia
            = SumaTally(efectivoHelperItems, Len(efectivoHelperItems))]_vars

\* A tally of one and of one tenth was used: 1.1 is stored.
C31_Witness ==
  /\ last = "helperUsado"
  /\ Len(efectivoHelperItems) = 2
  /\ \E i, j \in 1 .. 2 :
       /\ efectivoHelperItems[i] = Scale
       /\ efectivoHelperItems[j] = Scale \div 10
  /\ data.cierres[fecha].efectivoCajaProxDia = Scale + (Scale \div 10)

-----------------------------------------------------------------------------
(* Claims on the save cycle of useUserStorage *)

\* C32: a mutation issues no PUT itself and replaces the armed timer by one
\* for the new document, so the documents in between are never sent; when
\* the timer fires it issues exactly one PUT, whose body is the document in
\* memory at that moment (the latest), and no timer is left armed.
C32_DebounceCollapses ==
  [][/\ nEdits' # nEdits =>
          /\ puts' = puts
          /\ timer' = [key |-> email, body |-> state']
     /\ timer # NoTimer => timer.body = state
     /\ puts' # puts =>
          /\ Len(puts') = Len(puts) + 1
          /\ SubSeq(puts', 1, Len(puts)) = puts
          /\ puts'[Len(puts')].body = state
          /\ timer' = NoTimer]_vars

\* Two mutations and one PUT after them: it carries both, and the document
\* with only the first was never sent.
C32_Witness ==
  /\ email = "a"
  /\ nEdits = 2
  /\ state = server["a"] \cup {<<"a", 1>>, <<"a", 2>>}
  /\ timer = NoTimer
  /\ puts # <<>>
  /\ puts[Len(puts)].body = state
  /\ \A k \in DOMAIN puts : <<"a", 1>> \in puts[k].body => <<"a", 2>> \in puts[k].body

\* C33: the timer that fires writes the document of its cycle as the local
\* backup of the user logged in, before the PUT and whatever becomes of it:
\* when the PUT is delivered or fails the backup of that user holds the
\* document the PUT carried; and a PUT that fails leaves the document in
\* memory, the backups and the server as they were.
C33_BackupWhateverThePut ==
  [][/\ puts' # puts =>
          /\ timer.key = email
          /\ backup' = [backup EXCEPT ![email] = BackupOf(state)]
     /\ last' \in {"putEntregado", "putFallido"} =>
          /\ putReq.key = email
          /\ backup[email] = BackupOf(putReq.body)
          /\ backup' = backup
          /\ state' = state
     /\ last' = "putFallido" => server' = server]_vars

\* The PUT of a mutated document failed: the backup holds the document, the
\* server does not.
C33_Witness ==
  /\ last = "putFallido"
  /\ nEdits > 0
  /\ <<email, nEdits>> \in state
  /\ backup[email] = BackupOf(state)
  /\ server[email] # state

-----------------------------------------------------------------------------
(* Claims on the load of useUserStorage *)

\* C34: when the GET is answered the document in memory is the server's for
\* the user logged in, whatever the local backup holds; when the GET fails
\* the document is the state of the backup fetchState read, if it read a
\* valid one, and the empty document if not.
C34_BackupOnlyWhenLoadFails ==
  [][/\ last' = "cargado" =>
          /\ load.user = email
          /\ state' = server[email]
     /\ last' = "cargaFallida" =>
          /\ load.user = email
          /\ state' = IF load.backup.present THEN load.backup.state ELSE EmptyDoc
     /\ last' \in {"cargado", "cargaFallida"} => backup' = backup]_vars

\* The GET was answered while the backup held another document than the
\* server's: the document is the server's.
C34_Witness ==
  /\ last = "cargado"
  /\ backup[email].present
  /\ nEdits > 0
  /\ <<email, nEdits>> \in backup[email].state
  /\ state = server[email]
  /\ state # backup[email].state

\* C35: the document in memory changes only by a mutation or by the load of
\* the user logged in: a GET is in flight only for that user (the one of a
\* user who left is aborted at logout), so neither its answer nor its failure
\* reaches the document after the session has gone over to another user.
C35_OnlyCurrentUsersLoad ==
  [][/\ load # NoLoad => load.user = email
     /\ load' # NoLoad => load'.user = email'
     /\ last' \in {"cargado", "cargaFallida"} => load.user = email /\ email' = email
     /\ state' # state =>
          \/ nEdits' # nEdits
          \/ last' \in {"cargado", "cargaFallida"}]_vars

\* User a left while the GET for a was in flight and b logged in: the GET
\* for a is gone, the one in flight is b's, the document is untouched.
C35_Witness ==
  /\ last = "cargaAbortadaA"
  /\ email = "b"
  /\ load # NoLoad
  /\ load.user = "b"
  /\ state = EmptyDoc

-----------------------------------------------------------------------------
(* Claims on the attribution of sales to closings *)

\* C36: in every state reached from the empty document, a sale that has a
\* cierreFecha has the date of a closing record that exists with cerrado set:
\* no sale is attributed to a date that is open.
C36_AttributedOnlyToClosedDates ==
  \A i \in DOMAIN data.ventas :
    data.ventas[i].cierreFecha # NoFecha
      => /\ data.ventas[i].cierreFecha \in Dates
         /\ data.cierres[data.ventas[i].cierreFecha].exists
         /\ data.cierres[data.ventas[i].cierreFecha].cerrado

\* A date was reopened and its sale released while the sale of another date
\* stays attributed to its closing.
C36_Witness ==
  /\ last = "reabierto"
  /\ ~Cerrado(data, fecha)
  /\ \E i, j \in DOMAIN data.ventas :
       /\ data.ventas[i].cierreFecha = NoFecha
       /\ data.ventas[j].cierreFecha \in Dates \ {fecha}
       /\ Cerrado(data, data.ventas[j].cierreFecha)

\* The sales shown for date f that are paid, wholly or in part, by a method.
PorMetodo(s, f) == [m \in Metodos |-> sumVentas(s, f, m)]

\* C37: while date d is closed, before and after a step, the step leaves the
\* sales attributed to d and the totals of d by payment method as they were:
\* new sales, deletions and changes of method elsewhere, and the closing or
\* reopening of other dates do not reach them.  Only reabrirDia on d, after
\* which d is not closed, changes them.
C37_ClosedDateSalesFrozen ==
  [][data' # data =>
       \A d \in Dates :
         Cerrado(data, d) /\ Cerrado(data', d) =>
           /\ ventasDia(data', d) = ventasDia(data, d)
           /\ PorMetodo(data', d) = PorMetodo(data, d)]_vars

\* A sale was recorded while today is closed with its own sale: today's
\* figures hold the one sale, the new one is not attributed.
C37_Witness ==
  /\ last = "venta"
  /\ Cerrado(data, Today)
  /\ Len(data.ventas) = 2
  /\ Len(ventasDia(data, Today)) = 1
  /\ data.ventas[1].cierreFecha = NoFecha

-----------------------------------------------------------------------------
(* Claims on the figures of the closing *)

\* C38: for every date, the totals of the three payment methods shown by the
\* closing add up to its total of sales; every payment on record has one of
\* the three methods, and no sale and no payment has the method fiado (a
\* credit sale is written to fiados, not to ventas).
C38_MethodTotalsAddUp ==
  /\ \A d \in Dates :
       sumVentas(data, d, "efectivo") + sumVentas(data, d, "mercadopago")
         + sumVentas(data, d, "posnet") = totalVentas(data, d)
  /\ \A i \in DOMAIN data.ventas :
       /\ data.ventas[i].metodo \in Metodos \cup {"mixto"}
       /\ data.ventas[i].pagos # <<>>
       /\ \A k \in DOMAIN data.ventas[i].pagos :
            data.ventas[i].pagos[k].metodo \in Metodos

\* A sale paid half in cash and half by posnet is among today's: both
\* methods have their part of it.
C38_Witness ==
  /\ \E i \in DOMAIN data.ventas :
       /\ data.ventas[i].metodo = "mixto"
       /\ Len(data.ventas[i].pagos) = 2
  /\ sumVentas(data, Today, "efectivo") > 0
  /\ sumVentas(data, Today, "posnet") > 0
  /\ totalVentas(data, Today)
       = sumVentas(data, Today, "efectivo") + sumVentas(data, Today, "posnet")
  /\ data.fiados # <<>>

\* C39: for every closed date d the total of sales ResumenHistorico shows
\* for the range from d to d is the total of sales the closing shows for d.
C39_HistoricalAgreesWithClosing ==
  \A d \in Dates :
    Cerrado(data, d) => totalVentasRango(data, d, d) = totalVentas(data, d)

-----------------------------------------------------------------------------
(* Claims on the liveness of the save cycle *)

\* C40: a timer armed for the document (every mutation arms one) leads to a
\* PUT being issued, unless the user logs out first; the PUT issued carries
\* the whole document in memory at that moment, under the key of the user
\* logged in; a PUT that fails leaves no timer armed, and a timer is armed
\* only by a mutation, a login or the outcome of a load, so the failed PUT is
\* not sent again until the document changes.
C40_EventuallyPutNoRetry ==
  /\ \A n \in 0 .. MaxPuts - 1 :
       (timer # NoTimer /\ Len(puts) = n) ~> (Len(puts) > n \/ email = NoEmail)
  /\ [][/\ puts' # puts =>
             /\ timer # NoTimer
             /\ puts'[Len(puts')].body = state
             /\ puts'[Len(puts')].key = email
        /\ nEdits' # nEdits => timer' = [key |-> email, body |-> state']
        /\ last' = "putFallido" => timer = NoTimer /\ timer' = NoTimer /\ puts' = puts
        /\ (timer' # NoTimer /\ timer' # timer) =>
             \/ nEdits' # nEdits
             \/ email' # email
             \/ last' \in {"cargado", "cargaFallida"}]_vars

\* The PUT of the latest document was issued and failed: nothing is armed.
C40_Witness ==
  /\ last = "putFallido"
  /\ nEdits = MaxEdits
  /\ timer = NoTimer
  /\ putReq = NoReq
  /\ puts # <<>>
  /\ puts[Len(puts)] = [key |-> email, body |-> state, load |-> loadStatus]

====
